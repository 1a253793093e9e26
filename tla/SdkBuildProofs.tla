--------------------------- MODULE SdkBuildProofs ---------------------------
(***************************************************************************)
(* Proofs about SdkBuild, for every set of selections and rules, and any   *)
(* number of calls, of commands that fail and of calls that are killed.    *)
(***************************************************************************)
EXTENDS SdkBuild, TLAPS

\* What a call does after init_defconf.
LaterStep ==
  \/ Begin
  \/ MakeToolDir \/ Untar \/ TouchInstalled \/ ConfigureBuildroot \/ MakeBuildroot \/ mkbrFails
  \/ PrepareKernel \/ Mark \/ Clean \/ CleanFails \/ Remark \/ ConfigureKernel
  \/ CompileKernel \/ CompileFails
  \/ PrepareRootfs \/ MakeRootfs \/ UnpackRootfs \/ RootfsUnpacked \/ RemoveModules
  \/ CopyModules \/ MakeImage
  \/ clbr \/ Wipe

Before == {"select", "defconf", "info"}

ReturnSteps == {"mkkernel", "mark", "clean", "rootfs", "ok"}

\* A later step leaves the selection alone, and is not back in the beginning.
LEMMA Later ==
  ASSUME LaterStep, back \in ReturnSteps
  PROVE  /\ UNCHANGED <<command, todo, env, defconf, buildconfig, chosen, calls>>
         /\ at \in Steps \ {"select", "defconf"} /\ (at = "info" => todo = <<>>)
         /\ at' \in (Steps \ Before) \cup {"ok", "failed"}
         /\ back' \in ReturnSteps
<1> USE DEF Steps, Before, ReturnSteps
<1>1. CASE Begin
  BY <1>1 DEF Begin, mkbr, Goto, disk, NoFault, history, bounds
<1>2. CASE MakeToolDir
  BY <1>2 DEF MakeToolDir, NextTool, SetTool, Goto, disk, NoFault, history, bounds
<1>3. CASE Untar
  BY <1>3 DEF Untar, SetTool, Goto, disk, NoFault, history, bounds
<1>4. CASE TouchInstalled
  BY <1>4 DEF TouchInstalled, NextTool, SetTool, Goto, disk, NoFault, history, bounds
<1>5. CASE ConfigureBuildroot
  BY <1>5 DEF ConfigureBuildroot, Goto, disk, NoFault, history, bounds
<1>6. CASE MakeBuildroot
  BY <1>6 DEF MakeBuildroot, Goto, disk, NoFault, history, bounds
<1>7. CASE mkbrFails
  BY <1>7 DEF mkbrFails, LeaveHalf, Goto, disk, Fault, NoFault, history, bounds
<1>8. CASE PrepareKernel
  BY <1>8 DEF PrepareKernel, prepare_toolchain, mkbr, Goto, disk, NoFault, history, bounds
<1>9. CASE Mark
  BY <1>9 DEF Mark, WriteMark, InTree, Goto, disk, NoFault, history, bounds
<1>10. CASE Clean
  BY <1>10 DEF Clean, AfterClean, InTree, Goto, bounds
<1>11. CASE CleanFails
  BY <1>11 DEF CleanFails, AfterClean, Goto, disk, Fault
<1>12. CASE Remark
  BY <1>12 DEF Remark, WriteMark, InTree, Goto, NoFault, history, bounds
<1>13. CASE ConfigureKernel
  BY <1>13 DEF ConfigureKernel, InTree, Goto, disk, NoFault, history, bounds
<1>14. CASE CompileKernel
  BY <1>14 DEF CompileKernel, InTree, Goto, NoFault, history, bounds
<1>15. CASE CompileFails
  BY <1>15 DEF CompileFails, Goto, disk, Fault, NoFault, history, bounds
<1>16. CASE PrepareRootfs
  BY <1>16 DEF PrepareRootfs, prepare_toolchain, mkbr, Goto, disk, NoFault, history, bounds
<1>17. CASE MakeRootfs
  BY <1>17 DEF MakeRootfs, LeaveHalf, Goto, disk, Fault, NoFault, history, bounds
<1>18. CASE UnpackRootfs
  BY <1>18 DEF UnpackRootfs, InRootfs, Goto, disk, NoFault, history, bounds
<1>19. CASE RootfsUnpacked
  BY <1>19 DEF RootfsUnpacked, InRootfs, Goto, disk, Fault, NoFault, history, bounds
<1>20. CASE RemoveModules
  BY <1>20 DEF RemoveModules, InRootfs, Goto, NoFault, history, bounds
<1>21. CASE CopyModules
  BY <1>21 DEF CopyModules, InRootfs, Goto, disk, Fault, NoFault, history, bounds
<1>22. CASE MakeImage
  BY <1>22 DEF MakeImage, Goto, disk, Fault, NoFault, history, bounds
<1>23. CASE clbr
  BY <1>23 DEF clbr, Goto, NoFault, history, bounds
<1>24. CASE Wipe
  BY <1>24 DEF Wipe, Goto, bounds
<1> QED
  BY <1>1, <1>2, <1>3, <1>4, <1>5, <1>6, <1>7, <1>8, <1>9, <1>10, <1>11, <1>12, <1>13, <1>14,
     <1>15, <1>16, <1>17, <1>18, <1>19, <1>20, <1>21, <1>22, <1>23, <1>24 DEF LaterStep

-----------------------------------------------------------------------------
(* The selection.  A call may be killed between two lines of .buildconfig, *)
(* so what is saved is a part of what was chosen; the order in which the   *)
(* fields are written says which part, if check_env accepts it.            *)

Asked == {"all", "buildroot", "kernel", "clean", "distclean"}
Early == {"CHIP", "PLATFORM", "BUSINESS"}

PartOfChosen(e) ==
  /\ \A f \in Fields : e[f] \in {"", chosen[f]}
  /\ e.KERN_VER # "" => \A f \in Early : e[f] = chosen[f]

FromSelection(e) == \E s \in Selections : \A f \in Fields \ {"BOARD"} : e[f] \in {"", s[f]}

SelectionTypes ==
  /\ env \in [Fields -> Values] /\ buildconfig \in [Fields -> Values] /\ chosen \in [Fields -> Values]
  /\ todo \in Seq(Fields)
  /\ at \in Steps \cup Ended
  /\ command \in Full \cup Asked \cup {"none", "pack_debug"}
  /\ back \in ReturnSteps

ChosenSelected ==
  /\ chosen = NoSelection \/ FromSelection(chosen)
  /\ chosen.BOARD \in Boards \cup {""}

\* The lines that are written are those of the call; the others are not there yet.
WrittenInOrder ==
  /\ at \notin {"select", "info"} => todo = <<>>
  /\ at \in {"select", "info"} =>
       \A f \in Fields : \/ buildconfig[f] = env[f]
                         \/ buildconfig[f] = "" /\ \E k \in 1 .. Len(todo) : todo[k] = f
  /\ \A i, k \in 1 .. Len(todo) : todo[i] = "KERN_VER" /\ todo[k] \in Early => k < i

SelectionInv ==
  /\ SelectionTypes
  /\ ChosenSelected
  /\ PartOfChosen(buildconfig)
  /\ PartOfChosen(env) \/ (at = "defconf" /\ command \in Asked /\ env \in Selections)
  /\ WrittenInOrder
  /\ Building => check_env(env)

LEMMA SelectionInit == Init => SelectionInv
<1> SUFFICES ASSUME Init PROVE SelectionInv
  OBVIOUS
<1>1. NoSelection \in [Fields -> Values] /\ \A f \in Fields : NoSelection[f] = ""
  <2>1. "" \in Values
    BY Zenon DEF Values
  <2> QED
    BY <2>1 DEF NoSelection
<1>2. "KERN_VER" \in Fields /\ "BOARD" \in Fields /\ Early \subseteq Fields
  BY DEF Fields, Early
<1>3. SelectionTypes
  <2>1. todo \in Seq(Fields)
    BY DEF Init
  <2> QED
  BY <2>1, <1>1 DEF Init, SelectionTypes, Ended, ReturnSteps, Full, Asked
<1>4. WrittenInOrder
  BY DEF Init, WrittenInOrder
<1>5. ChosenSelected /\ PartOfChosen(buildconfig) /\ PartOfChosen(env) /\ ~Building
  BY <1>1, <1>2 DEF Init, ChosenSelected, PartOfChosen, Building, Steps
<1> QED
  BY <1>3, <1>4, <1>5 DEF SelectionInv

LEMMA Orders ==
  /\ \A O \in {SelectOrder, InfoOrder, LunchOrder} :
       /\ O \in Seq(Fields)
       /\ \A f \in Fields : \E k \in 1 .. Len(O) : O[k] = f
       /\ \A i, k \in 1 .. Len(O) : O[i] = "KERN_VER" /\ O[k] \in Early => k < i
<1>1. SelectOrder \in Seq(Fields) /\ InfoOrder \in Seq(Fields) /\ LunchOrder \in Seq(Fields)
  BY DEF SelectOrder, InfoOrder, LunchOrder, Fields
<1>2. Len(SelectOrder) = 6 /\ Len(InfoOrder) = 6 /\ Len(LunchOrder) = 6
  BY DEF SelectOrder, InfoOrder, LunchOrder
<1>3. \A f \in Fields : \E k \in 1 .. 6 : SelectOrder[k] = f
  BY DEF SelectOrder, Fields
<1>4. \A f \in Fields : \E k \in 1 .. 6 : InfoOrder[k] = f
  BY DEF InfoOrder, Fields
<1>5. \A f \in Fields : \E k \in 1 .. 6 : LunchOrder[k] = f
  BY DEF LunchOrder, Fields
<1>6. \A i, k \in 1 .. 6 : SelectOrder[i] = "KERN_VER" /\ SelectOrder[k] \in Early => k < i
  BY DEF SelectOrder, Early
<1>7. \A i, k \in 1 .. 6 : InfoOrder[i] = "KERN_VER" /\ InfoOrder[k] \in Early => k < i
  BY DEF InfoOrder, Early
<1>8. \A i, k \in 1 .. 6 : LunchOrder[i] = "KERN_VER" /\ LunchOrder[k] \in Early => k < i
  BY DEF LunchOrder, Early
<1> DEFINE Ordered(O) ==
             /\ O \in Seq(Fields)
             /\ \A f \in Fields : \E k \in 1 .. Len(O) : O[k] = f
             /\ \A i, k \in 1 .. Len(O) : O[i] = "KERN_VER" /\ O[k] \in Early => k < i
<1>9. Ordered(SelectOrder)
  BY <1>1, <1>2, <1>3, <1>6
<1>10. Ordered(InfoOrder)
  BY <1>1, <1>2, <1>4, <1>7
<1>11. Ordered(LunchOrder)
  BY <1>1, <1>2, <1>5, <1>8
<1> HIDE DEF Ordered
<1>12. \A O \in {SelectOrder, InfoOrder, LunchOrder} : Ordered(O)
  BY <1>9, <1>10, <1>11
<1> QED
  BY <1>12 DEF Ordered

LEMMA SelectionWrite == SelectionInv /\ WriteField => SelectionInv'
<1> SUFFICES ASSUME SelectionInv, WriteField PROVE SelectionInv'
  OBVIOUS
<1> DEFINE h == Head(todo)
<1>1. /\ todo # <<>> /\ todo \in Seq(Fields) /\ todo' = Tail(todo) /\ h \in Fields
      /\ buildconfig' = [buildconfig EXCEPT ![h] = env[h]]
      /\ UNCHANGED <<command, at, env, back, chosen>>
      /\ at \in {"select", "info"}
      /\ h = todo[1]
  <2>1. /\ todo # <<>> /\ todo' = Tail(todo)
        /\ buildconfig' = [buildconfig EXCEPT ![h] = env[h]]
        /\ UNCHANGED <<command, at, env, back, chosen>>
    BY DEF WriteField, NoFault, history
  <2>2. todo \in Seq(Fields) /\ at \in {"select", "info"}
    BY <2>1 DEF SelectionInv, SelectionTypes, WrittenInOrder
  <2> QED
    BY <2>1, <2>2
<1>2. /\ todo' \in Seq(Fields) /\ Len(todo') = Len(todo) - 1 /\ Len(todo) \in Nat /\ Len(todo) > 0
      /\ \A k \in 1 .. Len(todo') : todo'[k] = todo[k + 1]
  BY <1>1
<1>3. PartOfChosen(env) /\ PartOfChosen(buildconfig)
  BY <1>1 DEF SelectionInv
<1>4. /\ buildconfig \in [Fields -> Values] /\ env \in [Fields -> Values]
      /\ buildconfig' \in [Fields -> Values]
      /\ \A f \in Fields : buildconfig'[f] = IF f = h THEN env[f] ELSE buildconfig[f]
  BY <1>1 DEF SelectionInv, SelectionTypes
<1>5. \A f \in Fields : \/ buildconfig[f] = env[f]
                        \/ buildconfig[f] = "" /\ \E k \in 1 .. Len(todo) : todo[k] = f
  BY <1>1 DEF SelectionInv, WrittenInOrder
<1>6. \A i, k \in 1 .. Len(todo) : todo[i] = "KERN_VER" /\ todo[k] \in Early => k < i
  BY DEF SelectionInv, WrittenInOrder
<1>7. PartOfChosen(buildconfig)'
  <2>1. \A f \in Fields : buildconfig'[f] \in {"", chosen[f]}
    BY <1>3, <1>4 DEF PartOfChosen
  <2>2. ASSUME buildconfig'.KERN_VER # "", NEW f \in Early
        PROVE  buildconfig'[f] = chosen[f]
    <3>1. f \in Fields /\ "KERN_VER" \in Fields /\ f # "KERN_VER"
      BY <2>2 DEF Early, Fields
    <3>2. env.KERN_VER # "" /\ env[f] = chosen[f]
      BY <2>2, <3>1, <1>3, <1>4, <1>5 DEF PartOfChosen
    <3>3. CASE f = h
      BY <3>1, <3>2, <3>3, <1>4
    <3>4. CASE f # h /\ h = "KERN_VER"
      <4>1. \A k \in 1 .. Len(todo) : todo[k] # f
        <5>1. Len(todo) \in Nat /\ 1 \in 1 .. Len(todo) /\ todo[1] = "KERN_VER"
          BY <3>4, <1>1, <1>2
        <5> SUFFICES ASSUME NEW k \in 1 .. Len(todo), todo[k] = f PROVE FALSE
          OBVIOUS
        <5>2. todo[k] \in Early
          BY <2>2
        <5>3. k < 1
          BY <5>1, <5>2, <1>6
        <5> QED
          BY <5>1, <5>3
      <4> QED
        BY <4>1, <3>1, <3>2, <3>4, <1>4, <1>5
    <3>5. CASE f # h /\ h # "KERN_VER"
      BY <3>1, <3>5, <2>2, <1>3, <1>4 DEF PartOfChosen
    <3> QED
      BY <3>3, <3>4, <3>5
  <2> QED
    BY <2>1, <2>2, <1>1 DEF PartOfChosen
<1>8. WrittenInOrder'
  <2>1. \A f \in Fields : \/ buildconfig'[f] = env[f]
                          \/ buildconfig'[f] = "" /\ \E k \in 1 .. Len(todo') : todo'[k] = f
    <3> SUFFICES ASSUME NEW f \in Fields, f # h, buildconfig[f] # env[f]
                 PROVE  buildconfig'[f] = "" /\ \E k \in 1 .. Len(todo') : todo'[k] = f
      BY <1>4
    <3>1. PICK k \in 1 .. Len(todo) : todo[k] = f
      BY <1>5
    <3>2. k # 1 /\ k - 1 \in 1 .. Len(todo') /\ todo'[k - 1] = f
      BY <3>1, <1>1, <1>2
    <3> QED
      BY <3>2, <1>4, <1>5
  <2>2. \A i, k \in 1 .. Len(todo') : todo'[i] = "KERN_VER" /\ todo'[k] \in Early => k < i
    <3> SUFFICES ASSUME NEW i \in 1 .. Len(todo'), NEW k \in 1 .. Len(todo'),
                        todo'[i] = "KERN_VER", todo'[k] \in Early
                 PROVE  k < i
      OBVIOUS
    <3>1. /\ i + 1 \in 1 .. Len(todo) /\ k + 1 \in 1 .. Len(todo)
          /\ todo[i + 1] = "KERN_VER" /\ todo[k + 1] \in Early
      BY <1>2
    <3>2. k + 1 < i + 1
      BY <3>1, <1>6
    <3> QED
      BY <3>2
  <2> QED
    BY <2>1, <2>2, <1>1, ZenonT(30) DEF WrittenInOrder
<1>9. SelectionTypes' /\ ChosenSelected' /\ PartOfChosen(env)' /\ (Building => check_env(env))'
  BY <1>1, <1>2, <1>3, <1>4
  DEF SelectionInv, SelectionTypes, ChosenSelected, PartOfChosen, Building, FromSelection, check_env
<1> QED
  BY <1>7, <1>8, <1>9 DEF SelectionInv

LEMMA SelectionValues ==
  /\ \A s \in Selections : s \in [Fields -> Values]
  /\ Boards \subseteq Values /\ "" \in Values
<1>1. \A s \in Selections : s \in [Fields -> STRING]
  BY SdkBuildAssumption
<1>2. "BOARD" \in Fields
  BY DEF Fields
<1>3. \A s \in Selections, f \in Fields : s[f] \in Values
  <2> TAKE s \in Selections, f \in Fields
  <2>1. s[f] \in {s[g] : g \in Fields}
    OBVIOUS
  <2>2. {s[g] : g \in Fields} \in {{t[g] : g \in Fields} : t \in Selections}
    OBVIOUS
  <2> QED
    BY <2>1, <2>2 DEF Values
<1>6. "" \in Values
  BY Zenon DEF Values
<1>4. \A s \in Selections : s \in [Fields -> Values]
  BY <1>1, <1>3
<1>5. Boards \subseteq Values
  BY <1>2, <1>3 DEF Boards
<1> QED
  BY <1>4, <1>5, <1>6

LEMMA SelectionCall == SelectionInv /\ Call => SelectionInv'
<1> SUFFICES ASSUME SelectionInv, Call PROVE SelectionInv'
  OBVIOUS
<1>1. /\ at \in Ended /\ todo = <<>> /\ UNCHANGED <<back>>
      /\ at \notin Steps
  BY DEF Call, SelectionInv, WrittenInOrder, Ended, Steps
<1>2. /\ NoSelection \in [Fields -> Values] /\ \A f \in Fields : NoSelection[f] = ""
      /\ "KERN_VER" \in Fields /\ "BOARD" \in Fields /\ Early \subseteq Fields /\ "BOARD" \notin Early
  BY SelectionValues DEF NoSelection, Fields, Early
<1>3. PartOfChosen(buildconfig) /\ SelectionTypes /\ ChosenSelected
  BY DEF SelectionInv
<1>4. \A i, k \in 1 .. Len(<<>>) : FALSE
  OBVIOUS
<1>5. ASSUME NEW s \in Selections, Ask(s)
      PROVE  SelectionInv'
  <2>1. /\ env' = s /\ chosen' = s /\ buildconfig' = NoSelection /\ at' = "select"
        /\ command' \in {"config", "lunch"} /\ todo' \in {SelectOrder, LunchOrder}
    BY <1>5 DEF Ask
  <2>2. s \in [Fields -> Values] /\ s.BOARD \in Boards \cup {""}
    BY SelectionValues DEF Boards
  <2>3. SelectionTypes'
    BY <2>1, <2>2, <1>1, <1>2, <1>3, Orders DEF SelectionTypes, Steps, Full
  <2>4. ChosenSelected' /\ PartOfChosen(buildconfig)' /\ PartOfChosen(env)'
    BY <2>1, <2>2, <1>2 DEF ChosenSelected, PartOfChosen, FromSelection
  <2>5. WrittenInOrder'
    <3>1. \A f \in Fields : buildconfig'[f] = "" /\ \E k \in 1 .. Len(todo') : todo'[k] = f
      BY <2>1, <1>2, Orders
    <3>2. \A i, k \in 1 .. Len(todo') : todo'[i] = "KERN_VER" /\ todo'[k] \in Early => k < i
      BY <2>1, Orders
    <3> QED
      BY <3>1, <3>2, <2>1 DEF WrittenInOrder
  <2>6. ~Building'
    BY <2>1 DEF Building
  <2> QED
    BY <2>3, <2>4, <2>5, <2>6 DEF SelectionInv
<1>6. ASSUME at' = "defconf", UNCHANGED todo, env' \in [Fields -> Values],
             buildconfig' \in [Fields -> Values], chosen' \in [Fields -> Values],
             command' \in Full \cup Asked \cup {"pack_debug"},
             ChosenSelected', PartOfChosen(buildconfig)',
             PartOfChosen(env)' \/ (command' \in Asked /\ env' \in Selections)
      PROVE  SelectionInv'
  <2>1. SelectionTypes'
    BY <1>6, <1>1, <1>3 DEF SelectionTypes, Steps
  <2>2. WrittenInOrder'
    BY <1>6, <1>1, <1>4 DEF WrittenInOrder
  <2>3. ~Building'
    BY <1>6 DEF Building
  <2> QED
    BY <1>6, <2>1, <2>2, <2>3 DEF SelectionInv
<1>7. ASSUME NEW s \in Selections, Arguments(s)
      PROVE  SelectionInv'
  <2>1. /\ env' = s /\ at' = "defconf" /\ UNCHANGED <<todo, chosen, buildconfig>>
        /\ command' \in Full \cup Asked /\ command' \in Asked
    BY <1>7 DEF Arguments, Asked, Full
  <2>2. ChosenSelected' /\ PartOfChosen(buildconfig)'
    BY <2>1, <1>3 DEF ChosenSelected, PartOfChosen, FromSelection
  <2> QED
    BY <2>1, <2>2, <1>3, <1>6, SelectionValues DEF SelectionTypes
<1>8. ASSUME NEW b \in Boards, select_board_ex(b)
      PROVE  SelectionInv'
  <2>1. /\ env' = [buildconfig EXCEPT !.BOARD = b] /\ chosen' = [chosen EXCEPT !.BOARD = b]
        /\ buildconfig' = [buildconfig EXCEPT !.BOARD = b]
        /\ command' = "pack_debug" /\ at' = "defconf" /\ UNCHANGED todo
    BY <1>8 DEF select_board_ex
  <2>2. buildconfig \in [Fields -> Values] /\ chosen \in [Fields -> Values] /\ b \in Values
    BY <1>3, SelectionValues DEF SelectionTypes
  <2>3. /\ \A f \in Fields : buildconfig'[f] = IF f = "BOARD" THEN b ELSE buildconfig[f]
        /\ \A f \in Fields : chosen'[f] = IF f = "BOARD" THEN b ELSE chosen[f]
        /\ env' = buildconfig'
        /\ buildconfig' \in [Fields -> Values] /\ chosen' \in [Fields -> Values]
    BY <2>1, <2>2
  <2>4. PartOfChosen(buildconfig)' /\ PartOfChosen(env)'
    BY <2>3, <1>2, <1>3 DEF PartOfChosen, Early
  <2>5. ChosenSelected'
    <3>1. chosen = NoSelection \/ FromSelection(chosen)
      BY <1>3 DEF ChosenSelected
    <3>2. Selections # {}
      BY DEF Boards
    <3>3. PICK s \in Selections : \A f \in Fields \ {"BOARD"} : chosen[f] \in {"", s[f]}
      BY <3>1, <3>2, <1>2 DEF FromSelection
    <3> QED
      BY <3>3, <2>3, <1>2 DEF ChosenSelected, FromSelection
  <2> QED
    BY <2>1, <2>3, <2>4, <2>5, <1>6
<1>9. ASSUME Plain
      PROVE  SelectionInv'
  <2>1. /\ env' = buildconfig /\ at' = "defconf" /\ UNCHANGED <<todo, chosen, buildconfig>>
        /\ command' \in Full
    BY <1>9 DEF Plain, Full
  <2>2. ChosenSelected' /\ PartOfChosen(buildconfig)' /\ PartOfChosen(env)'
    BY <2>1, <1>3 DEF ChosenSelected, PartOfChosen, FromSelection
  <2> QED
    BY <2>1, <2>2, <1>3, <1>6 DEF SelectionTypes
<1> QED
  BY <1>5, <1>7, <1>8, <1>9 DEF Call

LEMMA SelectionDefconf == SelectionInv /\ init_defconf => SelectionInv'
<1> SUFFICES ASSUME SelectionInv, init_defconf PROVE SelectionInv'
  OBVIOUS
<1>1. /\ at = "defconf" /\ check_env(env) /\ buildconfig' = NoSelection /\ todo' = InfoOrder
      /\ at' = "info" /\ UNCHANGED <<command, env, back>>
      /\ chosen' = IF command \in {"plain", "pack_debug"} THEN chosen ELSE env
  BY DEF init_defconf
<1>2. /\ NoSelection \in [Fields -> Values] /\ \A f \in Fields : NoSelection[f] = ""
      /\ "KERN_VER" \in Fields /\ Early \subseteq Fields /\ "BOARD" \in Fields
  BY SelectionValues DEF NoSelection, Fields, Early
<1>3. SelectionTypes /\ ChosenSelected
  BY DEF SelectionInv
<1>4. PartOfChosen(env) \/ (command \in Asked /\ env \in Selections)
  BY DEF SelectionInv
<1>5. PartOfChosen(env)'
  <2>1. CASE chosen' = env
    BY <2>1, <1>1, <1>2 DEF PartOfChosen
  <2>2. CASE command \in {"plain", "pack_debug"}
    BY <2>2, <1>1, <1>4 DEF PartOfChosen, Asked
  <2> QED
    BY <2>1, <2>2, <1>1
<1>6. ChosenSelected'
  <2>1. CASE UNCHANGED chosen
    BY <2>1, <1>3 DEF ChosenSelected, FromSelection
  <2>2. CASE chosen' = env /\ env \in Selections
    BY <2>2, <1>2 DEF ChosenSelected, FromSelection, Boards
  <2>3. CASE chosen' = env /\ PartOfChosen(env)
    <3>1. env.BOARD \in Boards \cup {""}
      BY <2>3, <1>2, <1>3 DEF PartOfChosen, ChosenSelected
    <3>2. CASE chosen = NoSelection
      <4>1. env.KERN_VER = ""
        BY <3>2, <2>3, <1>2 DEF PartOfChosen
      <4> QED
        BY <4>1, <1>1 DEF check_env
    <3>3. CASE FromSelection(chosen)
      BY <3>1, <3>3, <2>3 DEF ChosenSelected, FromSelection, PartOfChosen
    <3> QED
      BY <3>2, <3>3, <1>3 DEF ChosenSelected
  <2> QED
    BY <2>1, <2>2, <2>3, <1>1, <1>4
<1>7. WrittenInOrder'
  <2>1. \A f \in Fields : buildconfig'[f] = "" /\ \E k \in 1 .. Len(todo') : todo'[k] = f
    BY <1>1, <1>2, Orders
  <2>2. \A i, k \in 1 .. Len(todo') : todo'[i] = "KERN_VER" /\ todo'[k] \in Early => k < i
    BY <1>1, Orders
  <2> QED
    BY <2>1, <2>2, <1>1 DEF WrittenInOrder
<1>8. SelectionTypes'
  BY <1>1, <1>2, <1>3, Orders DEF SelectionTypes, Steps
<1>9. PartOfChosen(buildconfig)' /\ (Building => check_env(env))'
  BY <1>1, <1>2 DEF PartOfChosen, check_env
<1> QED
  BY <1>5, <1>6, <1>7, <1>8, <1>9 DEF SelectionInv

\* Steps that leave the selection, and what is still to be written of it, alone.
LEMMA SelectionKept ==
  ASSUME SelectionInv, at \notin {"select", "info"} \/ todo = <<>>,
         UNCHANGED <<command, todo, env, buildconfig, chosen>>, back' \in ReturnSteps,
         \/ at \notin {"defconf", "info"} /\ UNCHANGED at
         \/ at = "select" /\ at' = "defconf"
         \/ at = "defconf" /\ ~check_env(env) /\ at' = "failed" /\ PartOfChosen(env)
         \/ at \in Steps \ {"select", "defconf"} /\ at' \in (Steps \ Before) \cup {"ok", "failed"}
  PROVE  SelectionInv'
<1>1. todo = <<>> /\ SelectionTypes /\ ChosenSelected /\ PartOfChosen(buildconfig)
  BY DEF SelectionInv, WrittenInOrder
<1>2. at' \in Steps \cup Ended /\ (at' = "info" => FALSE) /\ (at' = "select" => at = "select")
  BY <1>1 DEF SelectionTypes, Steps, Ended, Before
<1>3. SelectionTypes' /\ ChosenSelected' /\ PartOfChosen(buildconfig)'
  BY <1>1, <1>2 DEF SelectionTypes, ChosenSelected, PartOfChosen, FromSelection
<1>4. PartOfChosen(env)' \/ (at = "defconf" /\ UNCHANGED at /\ command \in Asked /\ env \in Selections)
  BY DEF SelectionInv, PartOfChosen
<1>5. WrittenInOrder'
  <2>1. \A i, k \in 1 .. Len(todo) : FALSE
    BY <1>1
  <2> QED
    BY <2>1, <1>1, <1>2 DEF SelectionInv, WrittenInOrder
<1>6. (Building => check_env(env))'
  BY <1>2 DEF SelectionInv, Building, check_env, Before, Steps
<1> QED
  BY <1>3, <1>4, <1>5, <1>6 DEF SelectionInv

LEMMA SelectionNext == SelectionInv /\ [Next]_vars => SelectionInv'
<1> SUFFICES ASSUME SelectionInv, [Next]_vars PROVE SelectionInv'
  OBVIOUS
<1>1. SelectionTypes /\ (at \notin {"select", "info"} => todo = <<>>)
  BY DEF SelectionInv, WrittenInOrder
<1>2. CASE Call
  BY <1>2, SelectionCall
<1>3. CASE WriteField
  BY <1>3, SelectionWrite
<1>4. CASE Selected
  BY <1>1, <1>4, SelectionKept
  DEF Selected, Goto, disk, NoFault, history, SelectionTypes
<1>5. CASE Refused
  <2>1. /\ at = "defconf" /\ ~check_env(env) /\ at' = "failed"
        /\ UNCHANGED <<command, todo, env, buildconfig, chosen, back>>
    BY <1>5 DEF Refused, Goto, disk, NoFault, history
  <2>2. PartOfChosen(env)
    <3>1. CASE env \in Selections
      BY <3>1, <2>1, SdkBuildAssumption DEF check_env, Platforms
    <3> QED
      BY <3>1 DEF SelectionInv
  <2> QED
    BY <2>1, <2>2, <1>1, SelectionKept DEF SelectionTypes
<1>6. CASE init_defconf
  BY <1>6, SelectionDefconf
<1>7. CASE LaterStep
  BY <1>1, <1>7, Later, SelectionKept DEF SelectionTypes
<1>8. CASE Kill
  <2>1. /\ at' = "killed" /\ command' = "none" /\ todo' = <<>> /\ env' = NoSelection
        /\ UNCHANGED <<back, chosen, buildconfig>>
    BY <1>8 DEF Kill, Killed, LeaveHalf, Torn, disk
  <2>2. /\ NoSelection \in [Fields -> Values] /\ \A f \in Fields : NoSelection[f] = ""
        /\ "KERN_VER" \in Fields
    BY SelectionValues DEF NoSelection, Fields
  <2>3. SelectionTypes'
    <3>1. todo' \in Seq(Fields)
      BY <2>1
    <3> QED
      BY <3>1, <2>1, <2>2, <1>1 DEF SelectionTypes, Ended
  <2>4. ChosenSelected' /\ PartOfChosen(buildconfig)' /\ PartOfChosen(env)'
    BY <2>1, <2>2 DEF SelectionInv, ChosenSelected, PartOfChosen, FromSelection
  <2>5. WrittenInOrder'
    <3>1. \A i, k \in 1 .. Len(<<>>) : FALSE
      OBVIOUS
    <3> QED
      BY <3>1, <2>1 DEF WrittenInOrder
  <2>6. ~Building'
    BY <2>1 DEF Building, Steps
  <2> QED
    BY <2>3, <2>4, <2>5, <2>6 DEF SelectionInv
<1>9. CASE UNCHANGED vars
  <2>1. UNCHANGED <<command, at, todo, env, back, buildconfig, chosen>>
    BY <1>9 DEF vars, process, disk, history
  <2>2. SelectionTypes' /\ ChosenSelected'
    BY <2>1 DEF SelectionInv, SelectionTypes, ChosenSelected, FromSelection
  <2>3. PartOfChosen(buildconfig)' /\ (PartOfChosen(env) => PartOfChosen(env)')
    BY <2>1 DEF SelectionInv, PartOfChosen
  <2>4. WrittenInOrder'
    BY <2>1 DEF SelectionInv, WrittenInOrder
  <2> QED
    BY <2>1, <2>2, <2>3, <2>4 DEF SelectionInv, Building, check_env
<1> QED
  BY <1>2, <1>3, <1>4, <1>5, <1>6, <1>7, <1>8, <1>9 DEF Next, Working, LaterStep

THEOREM SelectionInvariant == Spec => []SelectionInv
<1> QED
  BY SelectionInit, SelectionNext, PTL DEF Spec

\* Every build of every run is the build of what was chosen last: a selection whose saving
\* was cut short is refused, whatever the selections are (BuildsTheChosen).
THEOREM ChosenBuilt == Spec => []BuildsTheChosen
<1>1. SelectionInv => BuildsTheChosen
  <2> SUFFICES ASSUME SelectionInv, Building, NEW f \in Fields
               PROVE  \/ env[f] = chosen[f]
                      \/ env[f] = "" /\ f = "ARCH"
                      \/ env[f] = "" /\ f = "BOARD" /\ env.PLATFORM = "android"
    BY DEF BuildsTheChosen
  <2>1. PartOfChosen(env) /\ check_env(env)
    BY DEF SelectionInv, Building
  <2>2. env.KERN_VER # "" /\ (env.BOARD = "" => env.PLATFORM = "android")
    BY <2>1 DEF check_env
  <2>3. CASE f \in Early
    BY <2>1, <2>2, <2>3 DEF PartOfChosen
  <2>4. CASE f \in {"KERN_VER", "ARCH", "BOARD"}
    BY <2>1, <2>2, <2>4 DEF PartOfChosen
  <2> QED
    BY <2>3, <2>4 DEF Fields, Early
<1> QED
  BY <1>1, SelectionInvariant, PTL

-----------------------------------------------------------------------------
(* What the calls leave on disk: the kernel trees, the toolchains, the     *)
(* buildroot output and the root filesystem.                               *)

MkbrSteps == {"mkdir", "untar", "touch", "buildroot", "makebr"}

RootfsSteps == {"mkrootfs", "rootfs", "unpack", "modules", "copy", "image"}

ImageSteps == {"unpack", "modules", "copy", "image"}

\* What the call is at; mkbr counts for the step it returns to.
Stage == IF at \in MkbrSteps THEN back ELSE at

\* A call of this kind has come to its end.
Done(commands) == at = "ok" /\ command \in commands

\* The steps of each command.
Flow ==
  /\ at \in MkbrSteps /\ back = "ok" => command = "buildroot"
  /\ Stage \in {"mkkernel", "mark", "remark", "config", "compile"} => command \in Full \cup {"kernel"}
  /\ Stage \in RootfsSteps => command \in Full
  /\ at \in ImageSteps => env.PLATFORM = "dragonboard"
  /\ Stage = "clkernel" => command \in {"clean", "distclean"}
  /\ Stage = "clean" => command \in Full \cup {"kernel", "clean", "distclean"}
  /\ at \in {"clbr", "wipe"} => command = "distclean"

DefconfInv == Building => defconf = Defconf(env)

\* The .config of a tree is the one its mark names, if no clean failed.
MarksHold == \A v \in KernVers \ hurt : kernel[v].config \in {"none", kernel[v].mark}

KernelInv ==
  /\ MarksHold
  /\ at = "remark" /\ env.KERN_VER \notin hurt => tree.config = "none"
  /\ at \in {"config", "compile"} => defconf.kern \in {tree.mark, ""}
  /\ at = "compile" =>
       /\ tree.config # "none"
       /\ defconf.kern # "" /\ env.KERN_VER \notin hurt => tree.config = defconf.kern
  /\ Stage \in RootfsSteps \/ Done(Full \cup {"kernel"}) =>
       /\ tree.built # "none"
       /\ defconf.kern # "" /\ env.KERN_VER \notin hurt => tree.built = defconf.kern

\* A toolchain is whole where its stamp is; a full build begins with making it so.
ToolsInv ==
  /\ "toolchain" \notin hurt => \A t \in Tools : toolchain[t].installed => Whole(t)
  /\ at = "touch" => Whole(tool)
  /\ command \in Full /\ "toolchain" \notin hurt =>
       /\ at \in MkbrSteps => back = "mkkernel"
       /\ at \in {"mkdir", "untar", "touch"} /\ tool = "external-toolchain_32" =>
            toolchain["external-toolchain"].installed
       /\ at \in Steps \ {"select", "defconf", "info", "mkdir", "untar", "touch"} =>
            \A t \in Tools : toolchain[t].installed

\* The .config of an output directory comes from a rule for its chip and platform.
RuledBy(r, o) == r.pattern[1] = o[1] /\ r.pattern[2] = o[2]

BuildrootConfigured ==
  \/ at \in {"makebr", "mkkernel"}
  \/ Stage \in {"mark", "clean", "remark", "config", "compile", "ok"} \cup RootfsSteps

ConfigsRuled ==
  \A o \in Outs : br[o] \in {"none", "asked"} \/ \E r \in Rules : RuledBy(r, o) /\ br[o] = r.br

BuildrootInv ==
  /\ ConfigsRuled
  /\ Done(Full) =>
       /\ defconf.out \in Outs
       /\ defconf.br # "" => \E r \in Rules : RuledBy(r, defconf.out) /\ defconf.br = r.br
  /\ HasBuildroot /\ command \in Full /\ BuildrootConfigured => br[defconf.out] # "none"

RootfsInv ==
  /\ rootfs.files = "part" => "rootfs" \in hurt \/ at = "unpack"
  /\ env.PLATFORM = "dragonboard" /\ (at \in ImageSteps \/ Done(Full)) => rootfs.files # "none"
  /\ at = "copy" => rootfs.modules = {}
  /\ env.PLATFORM = "dragonboard" /\ (at = "image" \/ Done(Full)) =>
       broken \/ rootfs.modules = {tree.built}

DiskInv ==
  /\ TypeOK /\ Flow /\ DefconfInv
  /\ KernelInv /\ ToolsInv /\ BuildrootInv /\ RootfsInv
  /\ FailsOnlyByFault

\* A selection that names a chip, a platform and a kernel that may be selected.
Selectable(s) ==
  /\ \E q \in Selections : s.CHIP = q.CHIP /\ s.PLATFORM = q.PLATFORM /\ s.KERN_VER = q.KERN_VER
  /\ s.BOARD \in Boards \cup {""}

LEMMA EnvOfBuild ==
  ASSUME SelectionInv, at # "select", check_env(env)
  PROVE  Selectable(env)
<1>1. {"CHIP", "PLATFORM", "KERN_VER", "BOARD"} \subseteq Fields
  BY DEF Fields
<1>2. CASE env \in Selections
  BY <1>2 DEF Selectable, Boards
<1>3. CASE PartOfChosen(env)
  <2>1. env.CHIP = chosen.CHIP /\ env.PLATFORM = chosen.PLATFORM /\ env.KERN_VER = chosen.KERN_VER
        /\ env.BOARD \in {"", chosen.BOARD} /\ chosen.KERN_VER # ""
    BY <1>1, <1>3 DEF PartOfChosen, Early, check_env
  <2>2. chosen # NoSelection
    BY <1>1, <2>1 DEF NoSelection
  <2>3. FromSelection(chosen) /\ chosen.BOARD \in Boards \cup {""}
    BY <2>2 DEF SelectionInv, ChosenSelected
  <2>4. PICK q \in Selections : \A f \in Fields \ {"BOARD"} : chosen[f] \in {"", q[f]}
    BY <2>3 DEF FromSelection
  <2>5. chosen.CHIP = q.CHIP /\ chosen.PLATFORM = q.PLATFORM /\ chosen.KERN_VER = q.KERN_VER
    BY <1>1, <2>1, <2>4 DEF check_env
  <2> QED
    BY <2>1, <2>3, <2>5 DEF Selectable
<1> QED
  BY <1>2, <1>3 DEF SelectionInv

Prefixed(a, b, t) == <<a, b>> \o t

LEMMA PatternItems ==
  ASSUME NEW a, NEW b, NEW c
  PROVE  /\ Prefixed(a, b, <<c>>)[1] = a /\ Prefixed(a, b, <<c>>)[2] = b
         /\ Len(Prefixed(a, b, <<c>>)) = 3 /\ Prefixed(a, b, <<c>>)[3] = c
  BY DEF Prefixed

LEMMA ShortPattern ==
  ASSUME NEW a, NEW b
  PROVE  Prefixed(a, b, <<>>)[1] = a /\ Prefixed(a, b, <<>>)[2] = b
  BY DEF Prefixed

LEMMA NoRuleItems ==
  ASSUME NEW d, NEW o, d = [br |-> "", kern |-> "", out |-> o]
  PROVE  d.br = "" /\ d.kern = ""
  OBVIOUS

\* What init_defconf may find.
FoundBy(s, d, n, r) ==
  /\ Thirds(s)[n] # <<"">> /\ r.pattern = <<s.CHIP, s.PLATFORM>> \o Thirds(s)[n]
  /\ d = [br |-> r.br, kern |-> r.kern,
          out |-> <<s.CHIP, s.PLATFORM, IF n = 1 THEN s.BOARD ELSE "common">>]

LEMMA DefconfFound ==
  ASSUME NEW s, NEW d, d = Defconf(s)
  PROVE  \/ d = [NoRule EXCEPT !.out = <<s.CHIP, s.PLATFORM, "common">>]
         \/ \E n \in 1 .. 4, r \in Rules : FoundBy(s, d, n, r)
<1> DEFINE found == {n \in 1 .. 4 : RuleFor(s, n) # {}}
           first == CHOOSE n \in found : \A k \in found : n <= k
           rule == CHOOSE r \in RuleFor(s, first) : TRUE
<1>1. CASE found = {}
  BY <1>1 DEF Defconf
<1>2. CASE found # {}
  <2>1. \E n \in found : \A k \in found : n <= k
    <3>1. \A n \in found : n \in {1, 2, 3, 4}
      OBVIOUS
    <3>2. PICK n \in found : TRUE
      BY <1>2
    <3> HIDE DEF found
    <3>3. CASE 1 \in found
      BY <3>1, <3>3
    <3>4. CASE 1 \notin found /\ 2 \in found
      BY <3>1, <3>4
    <3>5. CASE 1 \notin found /\ 2 \notin found /\ 3 \in found
      BY <3>1, <3>5
    <3>6. CASE 1 \notin found /\ 2 \notin found /\ 3 \notin found
      BY <3>1, <3>2, <3>6
    <3> QED
      BY <3>3, <3>4, <3>5, <3>6
  <2>2. first \in found
    <3> HIDE DEF found
    <3> QED
      BY <2>1
  <2>3. first \in 1 .. 4 /\ RuleFor(s, first) # {}
    <3> HIDE DEF first
    <3> QED
      BY <2>2
  <2>4. rule \in RuleFor(s, first)
    BY <2>3
  <2>5. /\ rule \in Rules /\ Thirds(s)[first] # <<"">>
        /\ rule.pattern = <<s.CHIP, s.PLATFORM>> \o Thirds(s)[first]
    <3> HIDE DEF rule, first
    <3> QED
      BY <2>4 DEF RuleFor
  <2>6. Defconf(s) = [br |-> rule.br, kern |-> rule.kern,
                      out |-> <<s.CHIP, s.PLATFORM, IF first = 1 THEN s.BOARD ELSE "common">>]
    BY <1>2 DEF Defconf
  <2> HIDE DEF rule, first, found
  <2> QED
    BY <2>3, <2>5, <2>6 DEF FoundBy
<1> QED
  BY <1>1, <1>2

\* The rule that is found is one for the chip and the platform, and for the output directory.
LEMMA DefconfRule ==
  ASSUME NEW s, NEW d, Selectable(s), NEW n \in 1 .. 4, NEW r \in Rules, FoundBy(s, d, n, r)
  PROVE  /\ d.br = r.br /\ d.kern = r.kern
         /\ d.out \in Outs /\ RuledBy(r, d.out)
<1> DEFINE common == <<s.CHIP, s.PLATFORM, "common">>
           own == <<s.CHIP, s.PLATFORM, s.BOARD>>
<1>0. r.pattern = Prefixed(s.CHIP, s.PLATFORM, Thirds(s)[n])
  BY DEF FoundBy, Prefixed
<1>1. common \in Outs /\ s.BOARD \in Boards \cup {""}
  BY DEF Outs, Selectable
<1>2. r.pattern \in Seq(STRING)
  BY SdkBuildAssumption
<1>3. n = 1 => Thirds(s)[n] = <<s.BOARD>>
  BY DEF Thirds
<1>4. r.pattern[1] = s.CHIP /\ r.pattern[2] = s.PLATFORM
  <2>1. \/ \E x : Thirds(s)[n] = <<x>>
        \/ Thirds(s)[n] = <<>>
    <3>1. n \in {1, 2, 3, 4}
      OBVIOUS
    <3> QED
      BY <3>1 DEF Thirds
  <2>2. CASE Thirds(s)[n] = <<>>
    BY <2>2, <1>0, ShortPattern
  <2>3. ASSUME NEW x, Thirds(s)[n] = <<x>>
        PROVE  r.pattern[1] = s.CHIP /\ r.pattern[2] = s.PLATFORM
    BY <2>3, <1>0, PatternItems
  <2> QED
    BY <2>1, <2>2, <2>3
<1>5. n = 1 => own \in Outs
  <2> SUFFICES ASSUME n = 1 PROVE own \in Outs
    OBVIOUS
  <2>1. Len(r.pattern) = 3 /\ r.pattern[3] = s.BOARD
    <3>1. r.pattern = Prefixed(s.CHIP, s.PLATFORM, <<s.BOARD>>)
      BY <1>0, <1>3
    <3> QED
      BY <3>1, PatternItems
  <2>2. s.BOARD # ""
    BY <1>3 DEF FoundBy
  <2>3. r.pattern = own
    BY <1>2, <1>4, <2>1
  <2>4. r \in {p \in Rules : Len(p.pattern) = 3 /\ p.pattern[3] \in Boards}
    BY <1>1, <2>1, <2>2
  <2>5. r.pattern \in Outs
    BY <2>4 DEF Outs
  <2> QED
    BY <2>3, <2>5
<1>6. /\ own[1] = s.CHIP /\ own[2] = s.PLATFORM
      /\ common[1] = s.CHIP /\ common[2] = s.PLATFORM
  OBVIOUS
<1>7. /\ d.br = r.br /\ d.kern = r.kern
      /\ d.out = IF n = 1 THEN own ELSE common
  BY DEF FoundBy
<1> HIDE DEF own, common
<1> QED
  BY <1>1, <1>4, <1>5, <1>6, <1>7 DEF RuledBy

LEMMA DefconfFacts ==
  ASSUME NEW s, NEW d, Selectable(s), d = Defconf(s)
  PROVE  /\ d \in [br : BrDefconfs, kern : Defconfs, out : Outs]
         /\ d.kern # "none"
         /\ d.br # "" => \E r \in Rules : RuledBy(r, d.out) /\ d.br = r.br
<1> DEFINE common == <<s.CHIP, s.PLATFORM, "common">>
<1>1. CASE d = [NoRule EXCEPT !.out = common]
  <2>1. common \in Outs
    BY DEF Outs, Selectable
  <2>2. "" \in BrDefconfs /\ "" \in Defconfs
    BY DEF BrDefconfs, Defconfs
  <2> HIDE DEF common
  <2>3. d = [br |-> "", kern |-> "", out |-> common]
    BY <1>1 DEF NoRule
  <2>4. d \in [br : BrDefconfs, kern : Defconfs, out : Outs]
    <3>1. ASSUME NEW e \in BrDefconfs, NEW k \in Defconfs, NEW o \in Outs
          PROVE  [br |-> e, kern |-> k, out |-> o] \in [br : BrDefconfs, kern : Defconfs, out : Outs]
      OBVIOUS
    <3> QED
      BY <2>1, <2>2, <2>3, <3>1
  <2>5. d.kern = "" /\ d.br = ""
    BY <2>3, NoRuleItems
  <2>6. d.kern # "none" /\ ~(d.br # "")
    BY <2>5
  <2> QED
    BY <2>4, <2>6
<1>2. ASSUME NEW n \in 1 .. 4, NEW r \in Rules, FoundBy(s, d, n, r)
      PROVE  /\ d \in [br : BrDefconfs, kern : Defconfs, out : Outs]
             /\ d.kern # "none"
             /\ RuledBy(r, d.out) /\ d.br = r.br
  <2>1. r.br \in BrDefconfs /\ r.kern \in Defconfs /\ r.kern # "none"
    BY SdkBuildAssumption DEF BrDefconfs, Defconfs
  <2>2. /\ d.br = r.br /\ d.kern = r.kern
        /\ d.out \in Outs /\ RuledBy(r, d.out)
    BY <1>2, DefconfRule
  <2>3. d = [br |-> d.br, kern |-> d.kern, out |-> d.out]
    BY <1>2 DEF FoundBy
  <2>4. d \in [br : BrDefconfs, kern : Defconfs, out : Outs]
    BY <2>1, <2>2, <2>3
  <2> QED
    BY <2>1, <2>2, <2>4
<1> QED
  BY <1>1, <1>2, DefconfFound

\* The steps before init_defconf is done: they leave the disk alone, but for .buildconfig.
SetupStep == Call \/ WriteField \/ Selected \/ Refused \/ init_defconf

LEMMA Setup ==
  ASSUME SelectionInv, SetupStep
  PROVE  /\ UNCHANGED <<tool, back, toolchain, br, half, kernel, rootfs, hurt, faults>>
         /\ at' \in Before \cup {"failed"}
         /\ at' = "failed" => ~check_env(env)'
         /\ at # "unpack"
<1>1. at \notin {"select", "info"} => todo = <<>>
  BY DEF SelectionInv, WrittenInOrder
<1>2. CASE Call
  BY <1>2 DEF Call, Ask, Arguments, select_board_ex, Plain, Before, Ended
<1>3. CASE WriteField
  BY <1>1, <1>3 DEF WriteField, NoFault, history, bounds, Before
<1>4. CASE Selected
  BY <1>4 DEF Selected, Goto, disk, NoFault, history, bounds, Before
<1>5. CASE Refused
  BY <1>5 DEF Refused, Goto, disk, NoFault, history, bounds, Before, check_env
<1>6. CASE init_defconf
  BY <1>6 DEF init_defconf, bounds, Before
<1> QED
  BY <1>2, <1>3, <1>4, <1>5, <1>6 DEF SetupStep

\* The end of the process from outside.
LEMMA KillStep ==
  ASSUME Kill
  PROVE  /\ at' = "killed" /\ command' = "none" /\ UNCHANGED <<kernel, rootfs>>
         /\ hurt \subseteq hurt' /\ hurt' \subseteq hurt \cup {"rootfs", "toolchain"}
         /\ at = "unpack" => "rootfs" \in hurt'
         /\ UNCHANGED toolchain \/ "toolchain" \in hurt'
         /\ \/ UNCHANGED br
            \/ \E gone : br' = [o \in Outs |-> IF o \in gone THEN "none" ELSE br[o]]
         /\ \/ UNCHANGED half
            \/ Building /\ half' \subseteq half \cup Outs \cup {defconf.out, Shared}
BY DEF Kill, Killed, LeaveHalf, Torn, disk, Building, Steps

LEMMA StepKinds == Next => SetupStep \/ LaterStep \/ Kill
BY DEF Next, Working, SetupStep, LaterStep

LEMMA FlowLater ==
  ASSUME SelectionInv, LaterStep, Flow
  PROVE  Flow'
<1> USE DEF MkbrSteps, RootfsSteps, ImageSteps, Stage, Full
<1>1. back \in ReturnSteps /\ UNCHANGED <<command, env>>
  BY Later DEF SelectionInv, SelectionTypes
<1>2. command \in Full \cup Asked \cup {"none", "pack_debug"}
  BY DEF SelectionInv, SelectionTypes
<1>3. Flow
  OBVIOUS
<1> USE DEF Flow, ReturnSteps, Asked
<1>4. CASE Begin
  BY <1>4, <1>1, <1>2, <1>3 DEF Begin, mkbr, Goto, disk, NoFault, history, bounds
<1>5. CASE MakeToolDir
  BY <1>5, <1>1, <1>2, <1>3 DEF MakeToolDir, NextTool, SetTool, Goto, disk, NoFault, history, bounds
<1>6. CASE Untar
  BY <1>6, <1>1, <1>2, <1>3 DEF Untar, SetTool, Goto, disk, NoFault, history, bounds
<1>7. CASE TouchInstalled
  BY <1>7, <1>1, <1>2, <1>3 DEF TouchInstalled, NextTool, SetTool, Goto, disk, NoFault, history, bounds
<1>8. CASE ConfigureBuildroot
  BY <1>8, <1>1, <1>2, <1>3 DEF ConfigureBuildroot, Goto, disk, NoFault, history, bounds
<1>9. CASE MakeBuildroot
  BY <1>9, <1>1, <1>2, <1>3 DEF MakeBuildroot, Goto, disk, NoFault, history, bounds
<1>10. CASE mkbrFails
  BY <1>10, <1>1, <1>2, <1>3 DEF mkbrFails, LeaveHalf, Goto, disk, Fault, NoFault, history, bounds
<1>11. CASE PrepareKernel
  BY <1>11, <1>1, <1>2, <1>3 DEF PrepareKernel, prepare_toolchain, mkbr, Goto, disk, NoFault, history, bounds
<1>12. CASE Mark
  BY <1>12, <1>1, <1>2, <1>3 DEF Mark, WriteMark, InTree, Goto, disk, NoFault, history, bounds
<1>13. CASE Clean
  BY <1>13, <1>1, <1>2, <1>3 DEF Clean, AfterClean, InTree, Goto, bounds
<1>14. CASE CleanFails
  BY <1>14, <1>1, <1>2, <1>3 DEF CleanFails, AfterClean, Goto, disk, Fault
<1>15. CASE Remark
  BY <1>15, <1>1, <1>2, <1>3 DEF Remark, WriteMark, InTree, Goto, NoFault, history, bounds
<1>16. CASE ConfigureKernel
  BY <1>16, <1>1, <1>2, <1>3 DEF ConfigureKernel, InTree, Goto, disk, NoFault, history, bounds
<1>17. CASE CompileKernel
  BY <1>17, <1>1, <1>2, <1>3 DEF CompileKernel, InTree, Goto, NoFault, history, bounds
<1>18. CASE CompileFails
  BY <1>18, <1>1, <1>2, <1>3 DEF CompileFails, Goto, disk, Fault, NoFault, history, bounds
<1>19. CASE PrepareRootfs
  BY <1>19, <1>1, <1>2, <1>3 DEF PrepareRootfs, prepare_toolchain, mkbr, Goto, disk, NoFault, history, bounds
<1>20. CASE MakeRootfs
  BY <1>20, <1>1, <1>2, <1>3 DEF MakeRootfs, LeaveHalf, Goto, disk, Fault, NoFault, history, bounds
<1>21. CASE UnpackRootfs
  BY <1>21, <1>1, <1>2, <1>3 DEF UnpackRootfs, InRootfs, Goto, disk, NoFault, history, bounds
<1>22. CASE RootfsUnpacked
  BY <1>22, <1>1, <1>2, <1>3 DEF RootfsUnpacked, InRootfs, Goto, disk, Fault, NoFault, history, bounds
<1>23. CASE RemoveModules
  BY <1>23, <1>1, <1>2, <1>3 DEF RemoveModules, InRootfs, Goto, NoFault, history, bounds
<1>24. CASE CopyModules
  BY <1>24, <1>1, <1>2, <1>3 DEF CopyModules, InRootfs, Goto, disk, Fault, NoFault, history, bounds
<1>25. CASE MakeImage
  BY <1>25, <1>1, <1>2, <1>3 DEF MakeImage, Goto, disk, Fault, NoFault, history, bounds
<1>26. CASE clbr
  BY <1>26, <1>1, <1>2, <1>3 DEF clbr, Goto, NoFault, history, bounds
<1>27. CASE Wipe
  BY <1>27, <1>1, <1>2, <1>3 DEF Wipe, Goto, bounds
<1> QED
  BY <1>4, <1>5, <1>6, <1>7, <1>8, <1>9, <1>10, <1>11, <1>12, <1>13, <1>14, <1>15, <1>16, <1>17, <1>18, <1>19, <1>20, <1>21, <1>22, <1>23, <1>24, <1>25, <1>26, <1>27 DEF LaterStep

\* What a call that builds knows of its selection.
LEMMA BuildFacts ==
  ASSUME SelectionInv, DefconfInv, Building
  PROVE  /\ env.KERN_VER \in KernVers /\ env.KERN_VER \notin {"toolchain", "rootfs"}
         /\ defconf \in [br : BrDefconfs, kern : Defconfs, out : Outs] /\ defconf.kern # "none"
         /\ defconf.br # "" => \E r \in Rules : RuledBy(r, defconf.out) /\ defconf.br = r.br
<1>1. Selectable(env)
  BY EnvOfBuild DEF SelectionInv, Building
<1>2. PICK q \in Selections : env.KERN_VER = q.KERN_VER
  BY <1>1 DEF Selectable
<1>3. env.KERN_VER \in KernVers /\ env.KERN_VER \notin {"toolchain", "rootfs"}
  BY <1>2, SdkBuildAssumption DEF KernVers
<1>4. defconf = Defconf(env)
  BY DEF DefconfInv
<1> QED
  BY <1>1, <1>3, <1>4, DefconfFacts

Trees == [mark : Defconfs \cup {"none"}, config : (Defconfs \ {""}) \cup {"none"},
          built : (Defconfs \ {""}) \cup {"none"}]

LEMMA KernelLater ==
  ASSUME SelectionInv, LaterStep, Flow, DefconfInv, KernelInv, kernel \in [KernVers -> Trees]
  PROVE  KernelInv'
<1> DEFINE v == env.KERN_VER
           Wrote(m, c, b) ==
             /\ kernel'[v].mark = m /\ kernel'[v].config = c /\ kernel'[v].built = b
             /\ \A w \in KernVers : w # v => kernel'[w] = kernel[w]
<1>1. back \in ReturnSteps /\ UNCHANGED <<command, env, defconf>> /\ Building
  BY Later DEF SelectionInv, SelectionTypes, Building
<1>2. v \in KernVers /\ v \notin {"toolchain", "rootfs"} /\ defconf.kern # "none"
  BY <1>1, BuildFacts
<1>3. ASSUME NEW m, NEW c, NEW b,
             \/ InTree([tree EXCEPT !.mark = m]) /\ c = tree.config /\ b = tree.built
             \/ InTree([tree EXCEPT !.config = c]) /\ m = tree.mark /\ b = tree.built
             \/ InTree([tree EXCEPT !.built = b]) /\ m = tree.mark /\ c = tree.config
             \/ InTree([tree EXCEPT !.config = c, !.built = b]) /\ m = tree.mark
      PROVE  Wrote(m, c, b)
  <2>1. tree \in Trees
    BY <1>2 DEF tree
  <2>2. PICK t : kernel' = [kernel EXCEPT ![v] = t] /\ t = [mark |-> m, config |-> c, built |-> b]
    BY <1>3, <2>1, ZenonT(30) DEF InTree, Trees
  <2>3. t.mark = m /\ t.config = c /\ t.built = b
    BY <2>2
  <2> QED
    BY <1>2, <2>2, <2>3
<1>4. KernelInv /\ Flow
  OBVIOUS
<1> HIDE DEF Wrote
<1> USE <1>1, <1>2, <1>4 DEF KernelInv, tree, Stage, Done, MkbrSteps, RootfsSteps, Flow, Full,
                             ReturnSteps, Marked
<1>marks. MarksHold /\ (UNCHANGED <<kernel, hurt>> => MarksHold')
  BY DEF MarksHold
<1>5. CASE Begin
  BY <1>5, <1>marks DEF Begin, mkbr, Goto, disk, NoFault, history, bounds
<1>6. CASE MakeToolDir
  BY <1>6, <1>marks DEF MakeToolDir, NextTool, SetTool, Goto, disk, NoFault, history, bounds
<1>7. CASE Untar
  BY <1>7, <1>marks DEF Untar, SetTool, Goto, disk, NoFault, history, bounds
<1>8. CASE TouchInstalled
  BY <1>8, <1>marks DEF TouchInstalled, NextTool, SetTool, Goto, disk, NoFault, history, bounds
<1>9. CASE ConfigureBuildroot
  BY <1>9, <1>marks DEF ConfigureBuildroot, Goto, disk, NoFault, history, bounds
<1>10. CASE MakeBuildroot
  BY <1>10, <1>marks DEF MakeBuildroot, Goto, disk, NoFault, history, bounds
<1>11. CASE mkbrFails
  BY <1>11, <1>marks DEF mkbrFails, LeaveHalf, Goto, disk, Fault, NoFault, history, bounds
<1>12. CASE PrepareKernel
  BY <1>12, <1>marks DEF PrepareKernel, prepare_toolchain, mkbr, Goto, disk, NoFault, history, bounds
<1>13. CASE CleanFails
  BY <1>13, <1>marks DEF CleanFails, AfterClean, Goto, disk, Fault, MarksHold
<1>14. CASE CompileFails
  BY <1>14, <1>marks DEF CompileFails, Goto, disk, Fault, NoFault, history, bounds
<1>15. CASE PrepareRootfs
  BY <1>15, <1>marks DEF PrepareRootfs, prepare_toolchain, mkbr, Goto, disk, NoFault, history, bounds
<1>16. CASE MakeRootfs
  BY <1>16, <1>marks DEF MakeRootfs, LeaveHalf, Goto, disk, Fault, NoFault, history, bounds
<1>17. CASE UnpackRootfs
  BY <1>17, <1>marks DEF UnpackRootfs, InRootfs, Goto, disk, NoFault, history, bounds
<1>18. CASE RootfsUnpacked
  BY <1>18, <1>marks DEF RootfsUnpacked, InRootfs, Goto, disk, Fault, NoFault, history, bounds, MarksHold
<1>19. CASE RemoveModules
  BY <1>19, <1>marks DEF RemoveModules, InRootfs, Goto, NoFault, history, bounds
<1>20. CASE CopyModules
  BY <1>20, <1>marks DEF CopyModules, InRootfs, Goto, disk, Fault, NoFault, history, bounds
<1>21. CASE MakeImage
  BY <1>21, <1>marks DEF MakeImage, Goto, disk, Fault, NoFault, history, bounds
<1>22. CASE clbr
  BY <1>22, <1>marks DEF clbr, Goto, NoFault, history, bounds
<1>23. CASE Mark
  <2>1. CASE ~(tree.mark = "none" /\ WriteMark)
    <3>1. /\ UNCHANGED <<kernel, hurt>> /\ at' \in {"config", "clean"} /\ at = "mark"
          /\ at' = "config" => Marked
      BY <1>23, <2>1 DEF Mark, Goto, disk, NoFault, history
    <3> QED
      BY <3>1, <1>marks
  <2>2. CASE tree.mark = "none" /\ WriteMark
    <3>1. Wrote(defconf.kern, tree.config, tree.built) /\ at' = "config" /\ UNCHANGED hurt
      BY <1>23, <2>2, <1>3 DEF Mark, WriteMark, Goto, NoFault, history
    <3>2. MarksHold'
      BY <2>2, <3>1, <1>marks DEF Wrote, MarksHold
    <3> QED
      BY <2>2, <3>1, <3>2 DEF Wrote
  <2> QED
    BY <2>1, <2>2
<1>24. CASE Clean
  <2>1. Wrote(tree.mark, "none", "none") /\ at = "clean" /\ at' = AfterClean /\ hurt' = hurt \ {v}
    BY <1>24, <1>3 DEF Clean, Goto
  <2>2. MarksHold'
    BY <2>1, <1>marks DEF Wrote, MarksHold
  <2> QED
    BY <2>1, <2>2 DEF Wrote, AfterClean
<1>25. CASE Remark
  <2>1. Wrote(defconf.kern, tree.config, tree.built) /\ at = "remark" /\ at' = "config" /\ UNCHANGED hurt
    BY <1>25, <1>3 DEF Remark, WriteMark, Goto, NoFault, history
  <2>2. MarksHold'
    BY <2>1, <1>marks DEF Wrote, MarksHold
  <2> QED
    BY <2>1, <2>2 DEF Wrote
<1>26. CASE ConfigureKernel
  <2>1. CASE at' = "failed"
    BY <1>26, <2>1, <1>marks DEF ConfigureKernel, Goto, disk, NoFault, history
  <2>2. CASE at' # "failed"
    <3>1. /\ Wrote(tree.mark, IF tree.config = "none" THEN defconf.kern ELSE tree.config, tree.built)
          /\ at = "config" /\ at' = "compile" /\ UNCHANGED hurt
          /\ tree.config # "none" \/ defconf.kern # ""
      BY <1>26, <2>2, <1>3 DEF ConfigureKernel, Goto, NoFault, history
    <3>2. MarksHold'
      BY <3>1, <1>marks DEF Wrote, MarksHold
    <3>3. v \notin hurt => tree.config \in {"none", tree.mark}
      BY <1>marks DEF MarksHold
    <3>4. CASE tree.config = "none"
      BY <3>1, <3>2, <3>4 DEF Wrote
    <3>5. CASE tree.config # "none"
      BY <3>1, <3>2, <3>3, <3>5 DEF Wrote
    <3> QED
      BY <3>4, <3>5
  <2> QED
    BY <2>1, <2>2
<1>27. CASE CompileKernel
  <2>1. /\ Wrote(tree.mark, tree.config, tree.config)
        /\ at = "compile" /\ at' \in {"ok", "mkrootfs"} /\ UNCHANGED hurt
    BY <1>27, <1>3 DEF CompileKernel, Goto, NoFault, history
  <2>2. MarksHold'
    BY <2>1, <1>marks DEF Wrote, MarksHold
  <2> QED
    BY <2>1, <2>2 DEF Wrote
<1>28. CASE Wipe
  <2>1. /\ UNCHANGED kernel /\ command \notin Full \cup {"kernel"} /\ at' = "ok"
        /\ \A w \in KernVers : w \notin hurt' => w \notin hurt
    <3>1. \A w \in KernVers : w # "toolchain"
      BY SdkBuildAssumption DEF KernVers
    <3> QED
      BY <1>28, <3>1 DEF Wipe, Goto
  <2> QED
    BY <2>1 DEF MarksHold
<1> QED
  BY <1>5, <1>6, <1>7, <1>8, <1>9, <1>10, <1>11, <1>12, <1>13, <1>14, <1>15, <1>16, <1>17, <1>18, <1>19, <1>20, <1>21, <1>22, <1>23, <1>24, <1>25, <1>26, <1>27, <1>28 DEF LaterStep

Toolchains == [Tools -> [files : {"none", "part", "whole"}, installed : BOOLEAN]]

LEMMA ToolsLater ==
  ASSUME SelectionInv, LaterStep, DefconfInv, Flow, ToolsInv, tool \in Tools, toolchain \in Toolchains
  PROVE  ToolsInv'
<1>1. back \in ReturnSteps /\ UNCHANGED <<command, env, defconf>> /\ Building
  BY Later DEF SelectionInv, SelectionTypes, Building
<1>2. env.KERN_VER # "toolchain"
  BY <1>1, BuildFacts
<1>3. command \in Full => command \notin {"buildroot", "kernel", "clean", "distclean", "pack_debug"}
  BY DEF Full
<1>4. ToolsInv /\ Flow /\ tool \in Tools /\ toolchain \in Toolchains
  OBVIOUS
<1> USE <1>1, <1>2, <1>3, <1>4 DEF ToolsInv, Flow, Stage, Steps, MkbrSteps, ReturnSteps, Whole, Tools, Toolchains
<1>5. CASE Begin
  BY <1>5 DEF Begin, mkbr, Goto, disk, NoFault, history, bounds
<1>6. CASE MakeToolDir
  BY <1>6 DEF MakeToolDir, NextTool, SetTool, Goto, disk, NoFault, history, bounds
<1>7. CASE Untar
  BY <1>7 DEF Untar, SetTool, Goto, disk, NoFault, history, bounds
<1>8. CASE TouchInstalled
  BY <1>8 DEF TouchInstalled, NextTool, SetTool, Goto, disk, NoFault, history, bounds
<1>9. CASE ConfigureBuildroot
  BY <1>9 DEF ConfigureBuildroot, Goto, disk, NoFault, history, bounds
<1>10. CASE MakeBuildroot
  BY <1>10 DEF MakeBuildroot, Goto, disk, NoFault, history, bounds
<1>11. CASE mkbrFails
  BY <1>11 DEF mkbrFails, LeaveHalf, Goto, disk, Fault, NoFault, history, bounds
<1>12. CASE PrepareKernel
  <2>1. KernelTool \in Tools
    BY DEF KernelTool
  <2>2. /\ at \in {"mkkernel", "clkernel"} /\ UNCHANGED <<toolchain, hurt>>
        /\ at' \in {"mark", "clean"} \/ (at' = "mkdir" /\ tool' = "external-toolchain")
        /\ at' = "mkdir" => toolchain[KernelTool].files = "none"
    BY <1>12 DEF PrepareKernel, prepare_toolchain, mkbr, Goto, disk, NoFault, history
  <2>3. CASE at' = "mkdir"
    <3>1. ~(command \in Full /\ "toolchain" \notin hurt)
      BY <2>1, <2>2, <2>3
    <3> QED
      BY <2>2, <2>3, <3>1
  <2>4. CASE at' # "mkdir"
    BY <2>2, <2>4
  <2> QED
    BY <2>3, <2>4
<1>13. CASE Mark
  BY <1>13 DEF Mark, WriteMark, InTree, Goto, disk, NoFault, history, bounds
<1>14. CASE Clean
  BY <1>14 DEF Clean, AfterClean, InTree, Goto, bounds
<1>15. CASE CleanFails
  BY <1>15 DEF CleanFails, AfterClean, Goto, disk, Fault
<1>16. CASE Remark
  BY <1>16 DEF Remark, WriteMark, InTree, Goto, NoFault, history, bounds
<1>17. CASE ConfigureKernel
  BY <1>17 DEF ConfigureKernel, InTree, Goto, disk, NoFault, history, bounds
<1>18. CASE CompileKernel
  BY <1>18 DEF CompileKernel, InTree, Goto, NoFault, history, bounds
<1>19. CASE CompileFails
  BY <1>19 DEF CompileFails, Goto, disk, Fault, NoFault, history, bounds
<1>20. CASE PrepareRootfs
  BY <1>20 DEF PrepareRootfs, prepare_toolchain, mkbr, Goto, disk, NoFault, history, bounds
<1>21. CASE MakeRootfs
  BY <1>21 DEF MakeRootfs, LeaveHalf, Goto, disk, Fault, NoFault, history, bounds
<1>22. CASE UnpackRootfs
  BY <1>22 DEF UnpackRootfs, InRootfs, Goto, disk, NoFault, history, bounds
<1>23. CASE RootfsUnpacked
  BY <1>23 DEF RootfsUnpacked, InRootfs, Goto, disk, Fault, NoFault, history, bounds
<1>24. CASE RemoveModules
  BY <1>24 DEF RemoveModules, InRootfs, Goto, NoFault, history, bounds
<1>25. CASE CopyModules
  BY <1>25 DEF CopyModules, InRootfs, Goto, disk, Fault, NoFault, history, bounds
<1>26. CASE MakeImage
  BY <1>26 DEF MakeImage, Goto, disk, Fault, NoFault, history, bounds
<1>27. CASE clbr
  BY <1>27 DEF clbr, Goto, NoFault, history, bounds
<1>28. CASE Wipe
  BY <1>28 DEF Wipe, Goto, bounds
<1> QED
  BY <1>5, <1>6, <1>7, <1>8, <1>9, <1>10, <1>11, <1>12, <1>13, <1>14, <1>15, <1>16, <1>17, <1>18, <1>19, <1>20, <1>21, <1>22, <1>23, <1>24, <1>25, <1>26, <1>27, <1>28 DEF LaterStep

LEMMA RootfsLater ==
  ASSUME SelectionInv, LaterStep, DefconfInv, Flow, RootfsInv, broken \in BOOLEAN,
         rootfs \in [files : {"none", "part", "whole"}, modules : SUBSET Defconfs]
  PROVE  RootfsInv'
<1>1. back \in ReturnSteps /\ UNCHANGED <<command, env, defconf>> /\ Building
  BY Later DEF SelectionInv, SelectionTypes, Building
<1>2. env.KERN_VER # "rootfs"
  BY <1>1, BuildFacts
<1>3. command \in Full => command \notin {"buildroot", "kernel", "clean", "distclean", "pack_debug"}
  BY DEF Full
<1>4. RootfsInv /\ Flow /\ rootfs \in [files : {"none", "part", "whole"}, modules : SUBSET Defconfs]
  OBVIOUS
<1> USE <1>1, <1>2, <1>3, <1>4 DEF RootfsInv, Flow, Stage, MkbrSteps, ReturnSteps, ImageSteps,
                                   RootfsSteps, Done, tree
<1>5. CASE Begin
  BY <1>5 DEF Begin, mkbr, Goto, disk, NoFault, history, bounds
<1>6. CASE MakeToolDir
  BY <1>6 DEF MakeToolDir, NextTool, SetTool, Goto, disk, NoFault, history, bounds
<1>7. CASE Untar
  BY <1>7 DEF Untar, SetTool, Goto, disk, NoFault, history, bounds
<1>8. CASE TouchInstalled
  BY <1>8 DEF TouchInstalled, NextTool, SetTool, Goto, disk, NoFault, history, bounds
<1>9. CASE ConfigureBuildroot
  BY <1>9 DEF ConfigureBuildroot, Goto, disk, NoFault, history, bounds
<1>10. CASE MakeBuildroot
  BY <1>10 DEF MakeBuildroot, Goto, disk, NoFault, history, bounds
<1>11. CASE mkbrFails
  BY <1>11 DEF mkbrFails, LeaveHalf, Goto, disk, Fault, NoFault, history, bounds
<1>12. CASE PrepareKernel
  BY <1>12 DEF PrepareKernel, prepare_toolchain, mkbr, Goto, disk, NoFault, history, bounds
<1>13. CASE Mark
  BY <1>13 DEF Mark, WriteMark, InTree, Goto, disk, NoFault, history, bounds
<1>14. CASE Clean
  BY <1>14 DEF Clean, AfterClean, InTree, Goto, bounds
<1>15. CASE CleanFails
  BY <1>15 DEF CleanFails, AfterClean, Goto, disk, Fault
<1>16. CASE Remark
  BY <1>16 DEF Remark, WriteMark, InTree, Goto, NoFault, history, bounds
<1>17. CASE ConfigureKernel
  BY <1>17 DEF ConfigureKernel, InTree, Goto, disk, NoFault, history, bounds
<1>18. CASE CompileKernel
  BY <1>18 DEF CompileKernel, InTree, Goto, NoFault, history, bounds
<1>19. CASE CompileFails
  BY <1>19 DEF CompileFails, Goto, disk, Fault, NoFault, history, bounds
<1>20. CASE PrepareRootfs
  BY <1>20 DEF PrepareRootfs, prepare_toolchain, mkbr, Goto, disk, NoFault, history, bounds
<1>21. CASE MakeRootfs
  BY <1>21 DEF MakeRootfs, LeaveHalf, Goto, disk, Fault, NoFault, history, bounds
<1>22. CASE UnpackRootfs
  BY <1>22 DEF UnpackRootfs, InRootfs, Goto, disk, NoFault, history, bounds
<1>23. CASE RootfsUnpacked
  BY <1>23 DEF RootfsUnpacked, InRootfs, Goto, disk, Fault, NoFault, history, bounds
<1>24. CASE RemoveModules
  BY <1>24 DEF RemoveModules, InRootfs, Goto, NoFault, history, bounds
<1>25. CASE CopyModules
  BY <1>25 DEF CopyModules, InRootfs, Goto, disk, Fault, NoFault, history, bounds
<1>26. CASE MakeImage
  BY <1>26 DEF MakeImage, Goto, disk, Fault, NoFault, history, bounds
<1>27. CASE clbr
  BY <1>27 DEF clbr, Goto, NoFault, history, bounds
<1>28. CASE Wipe
  BY <1>28 DEF Wipe, Goto, bounds
<1> QED
  BY <1>5, <1>6, <1>7, <1>8, <1>9, <1>10, <1>11, <1>12, <1>13, <1>14, <1>15, <1>16, <1>17, <1>18, <1>19, <1>20, <1>21, <1>22, <1>23, <1>24, <1>25, <1>26, <1>27, <1>28 DEF LaterStep

BuildrootOutputs == [Outs -> (BrDefconfs \ {""}) \cup {"none", "asked"}]

LEMMA BuildrootLater ==
  ASSUME SelectionInv, LaterStep, DefconfInv, Flow, BuildrootInv, br \in BuildrootOutputs
  PROVE  BuildrootInv'
<1>1. back \in ReturnSteps /\ UNCHANGED <<command, env, defconf>> /\ Building
  BY Later DEF SelectionInv, SelectionTypes, Building
<1>2. /\ defconf.out \in Outs
      /\ defconf.br # "" => \E r \in Rules : RuledBy(r, defconf.out) /\ defconf.br = r.br
  BY <1>1, BuildFacts
<1>3. command \in Full => command \notin {"buildroot", "kernel", "clean", "distclean", "pack_debug"}
  BY DEF Full
<1>4. BuildrootInv /\ Flow
  OBVIOUS
<1>rule. defconf'.out \in Outs /\ (defconf'.br # "" => \E r \in Rules : RuledBy(r, defconf'.out) /\ defconf'.br = r.br)
  BY <1>1, <1>2
<1>5. ConfigsRuled /\ (UNCHANGED br => ConfigsRuled')
  BY DEF BuildrootInv, ConfigsRuled
<1> USE <1>1, <1>3, <1>4, <1>5, <1>rule DEF BuildrootInv, BuildrootConfigured, Flow, Stage, MkbrSteps, ReturnSteps,
                                   RootfsSteps, HasBuildroot
<1>6. CASE Begin
  BY <1>6 DEF Begin, mkbr, Goto, disk, NoFault, history, bounds
<1>7. CASE MakeToolDir
  BY <1>7 DEF MakeToolDir, NextTool, SetTool, Goto, disk, NoFault, history, bounds
<1>8. CASE Untar
  BY <1>8 DEF Untar, SetTool, Goto, disk, NoFault, history, bounds
<1>9. CASE TouchInstalled
  BY <1>9 DEF TouchInstalled, NextTool, SetTool, Goto, disk, NoFault, history, bounds
<1>10. CASE MakeBuildroot
  BY <1>10 DEF MakeBuildroot, Goto, disk, NoFault, history, bounds
<1>11. CASE mkbrFails
  BY <1>11 DEF mkbrFails, LeaveHalf, Goto, disk, Fault, NoFault, history, bounds
<1>12. CASE PrepareKernel
  BY <1>12 DEF PrepareKernel, prepare_toolchain, mkbr, Goto, disk, NoFault, history, bounds
<1>13. CASE Mark
  BY <1>13 DEF Mark, WriteMark, InTree, Goto, disk, NoFault, history, bounds
<1>14. CASE Clean
  BY <1>14 DEF Clean, AfterClean, InTree, Goto, bounds
<1>15. CASE CleanFails
  BY <1>15 DEF CleanFails, AfterClean, Goto, disk, Fault
<1>16. CASE Remark
  BY <1>16 DEF Remark, WriteMark, InTree, Goto, NoFault, history, bounds
<1>17. CASE ConfigureKernel
  BY <1>17 DEF ConfigureKernel, InTree, Goto, disk, NoFault, history, bounds
<1>18. CASE CompileKernel
  BY <1>18 DEF CompileKernel, InTree, Goto, NoFault, history, bounds
<1>19. CASE CompileFails
  BY <1>19 DEF CompileFails, Goto, disk, Fault, NoFault, history, bounds
<1>20. CASE PrepareRootfs
  BY <1>20 DEF PrepareRootfs, prepare_toolchain, mkbr, Goto, disk, NoFault, history, bounds
<1>21. CASE MakeRootfs
  BY <1>21 DEF MakeRootfs, LeaveHalf, Goto, disk, Fault, NoFault, history, bounds
<1>22. CASE UnpackRootfs
  BY <1>22 DEF UnpackRootfs, InRootfs, Goto, disk, NoFault, history, bounds
<1>23. CASE RootfsUnpacked
  BY <1>23 DEF RootfsUnpacked, InRootfs, Goto, disk, Fault, NoFault, history, bounds
<1>24. CASE RemoveModules
  BY <1>24 DEF RemoveModules, InRootfs, Goto, NoFault, history, bounds
<1>25. CASE CopyModules
  BY <1>25 DEF CopyModules, InRootfs, Goto, disk, Fault, NoFault, history, bounds
<1>26. CASE MakeImage
  BY <1>26 DEF MakeImage, Goto, disk, Fault, NoFault, history, bounds
<1>27. CASE ConfigureBuildroot
  <2>1. /\ at = "buildroot" /\ at' = (IF HasBuildroot THEN "makebr" ELSE back) /\ UNCHANGED back
        /\ IF HasBuildroot
           THEN br' = [br EXCEPT ![defconf.out] =
                         CASE br[defconf.out] # "none" -> br[defconf.out]
                           [] defconf.br # "" -> defconf.br [] OTHER -> "asked"]
           ELSE UNCHANGED br
    BY <1>27 DEF ConfigureBuildroot, Goto
  <2>2. CASE HasBuildroot
    <3>1. /\ \A o \in Outs : o # defconf.out => br'[o] = br[o]
          /\ br'[defconf.out] = CASE br[defconf.out] # "none" -> br[defconf.out]
                                  [] defconf.br # "" -> defconf.br [] OTHER -> "asked"
      BY <1>2, <2>1, <2>2, ZenonT(30) DEF BuildrootOutputs
    <3>2. ConfigsRuled'
      BY <1>2, <3>1, ZenonT(30) DEF ConfigsRuled
    <3>3. defconf.br # "none" /\ br'[defconf.out] # "none"
      <4>1. defconf.br # "none"
        BY <1>2, SdkBuildAssumption
      <4> QED
        BY <3>1, <4>1
    <3> QED
      BY <2>1, <3>2, <3>3
  <2>3. CASE ~HasBuildroot
    BY <2>1, <2>3
  <2> QED
    BY <2>2, <2>3
<1>28. CASE clbr
  <2>1. br' = [br EXCEPT ![defconf.out] = "none"] /\ at = "clbr" /\ at' = "wipe"
    BY <1>28 DEF clbr, Goto
  <2>2. ConfigsRuled'
    BY <1>2, <2>1 DEF ConfigsRuled, BuildrootOutputs
  <2> QED
    BY <2>1, <2>2
<1>29. CASE Wipe
  <2>1. br' = [o \in Outs |-> "none"] /\ at = "wipe" /\ at' = "ok"
    BY <1>29 DEF Wipe, Goto
  <2>2. ConfigsRuled'
    BY <2>1 DEF ConfigsRuled
  <2> QED
    BY <2>1, <2>2
<1> QED
  BY <1>6, <1>7, <1>8, <1>9, <1>10, <1>11, <1>12, <1>13, <1>14, <1>15, <1>16, <1>17, <1>18, <1>19, <1>20, <1>21, <1>22, <1>23, <1>24, <1>25, <1>26, <1>27, <1>28, <1>29 DEF LaterStep

LEMMA FailsLater ==
  ASSUME SelectionInv, LaterStep, Flow, ToolsInv
  PROVE  FailsOnlyByFault'
<1>1. back \in ReturnSteps /\ UNCHANGED <<command, env, defconf>> /\ at # "failed"
  BY Later DEF SelectionInv, SelectionTypes, Steps
<1>2. KernelTool \in Tools /\ "external-toolchain_32" \in Tools
  BY DEF KernelTool, Tools
<1>3. ToolsInv /\ Flow
  OBVIOUS
<1> USE <1>1, <1>2, <1>3 DEF FailsOnlyByFault, HalfMade, HasBuildroot, ToolsInv, Flow, Stage, MkbrSteps, ReturnSteps, Full, Steps
<1>4. CASE Begin
  BY <1>4 DEF Begin, mkbr, Goto, disk, NoFault, history, bounds
<1>5. CASE MakeToolDir
  BY <1>5 DEF MakeToolDir, NextTool, SetTool, Goto, disk, NoFault, history, bounds
<1>6. CASE Untar
  BY <1>6 DEF Untar, SetTool, Goto, disk, NoFault, history, bounds
<1>7. CASE TouchInstalled
  BY <1>7 DEF TouchInstalled, NextTool, SetTool, Goto, disk, NoFault, history, bounds
<1>8. CASE ConfigureBuildroot
  BY <1>8 DEF ConfigureBuildroot, Goto, disk, NoFault, history, bounds
<1>9. CASE MakeBuildroot
  BY <1>9 DEF MakeBuildroot, Goto, disk, NoFault, history, bounds
<1>10. CASE mkbrFails
  BY <1>10 DEF mkbrFails, LeaveHalf, Goto, disk, Fault, NoFault, history, bounds
<1>11. CASE PrepareKernel
  BY <1>11 DEF PrepareKernel, prepare_toolchain, mkbr, Goto, disk, NoFault, history, bounds
<1>12. CASE Mark
  BY <1>12 DEF Mark, WriteMark, InTree, Goto, disk, NoFault, history, bounds
<1>13. CASE Clean
  BY <1>13 DEF Clean, AfterClean, InTree, Goto, bounds
<1>14. CASE CleanFails
  BY <1>14 DEF CleanFails, AfterClean, Goto, disk, Fault
<1>15. CASE Remark
  BY <1>15 DEF Remark, WriteMark, InTree, Goto, NoFault, history, bounds
<1>16. CASE ConfigureKernel
  BY <1>16 DEF ConfigureKernel, InTree, Goto, disk, NoFault, history, bounds
<1>17. CASE CompileKernel
  BY <1>17 DEF CompileKernel, InTree, Goto, NoFault, history, bounds
<1>18. CASE CompileFails
  BY <1>18 DEF CompileFails, Goto, disk, Fault, NoFault, history, bounds
<1>19. CASE PrepareRootfs
  BY <1>19 DEF PrepareRootfs, prepare_toolchain, mkbr, Goto, disk, NoFault, history, bounds
<1>20. CASE MakeRootfs
  BY <1>20 DEF MakeRootfs, LeaveHalf, Goto, disk, Fault, NoFault, history, bounds
<1>21. CASE UnpackRootfs
  BY <1>21 DEF UnpackRootfs, InRootfs, Goto, disk, NoFault, history, bounds
<1>22. CASE RootfsUnpacked
  BY <1>22 DEF RootfsUnpacked, InRootfs, Goto, disk, Fault, NoFault, history, bounds
<1>23. CASE RemoveModules
  BY <1>23 DEF RemoveModules, InRootfs, Goto, NoFault, history, bounds
<1>24. CASE CopyModules
  BY <1>24 DEF CopyModules, InRootfs, Goto, disk, Fault, NoFault, history, bounds
<1>25. CASE MakeImage
  BY <1>25 DEF MakeImage, Goto, disk, Fault, NoFault, history, bounds
<1>26. CASE clbr
  BY <1>26 DEF clbr, Goto, NoFault, history, bounds
<1>27. CASE Wipe
  BY <1>27 DEF Wipe, Goto, bounds
<1> QED
  BY <1>4, <1>5, <1>6, <1>7, <1>8, <1>9, <1>10, <1>11, <1>12, <1>13, <1>14, <1>15, <1>16, <1>17, <1>18, <1>19, <1>20, <1>21, <1>22, <1>23, <1>24, <1>25, <1>26, <1>27 DEF LaterStep

DiskTypes ==
  /\ tool \in Tools /\ toolchain \in Toolchains /\ br \in BuildrootOutputs
  /\ half \subseteq Outs \cup {Shared}
  /\ kernel \in [KernVers -> Trees]
  /\ rootfs \in [files : {"none", "part", "whole"}, modules : SUBSET Defconfs]
  /\ hurt \subseteq KernVers \cup {"toolchain", "rootfs"}
  /\ broken \in BOOLEAN /\ faults \in 0 .. Faults

\* What each later step may change of the disk and the history.
LEMMA Changes ==
  ASSUME LaterStep
  PROVE  /\ UNCHANGED tool \/ tool' \in Tools
         /\ UNCHANGED toolchain \/ MakeToolDir \/ Untar \/ TouchInstalled \/ Wipe
         /\ UNCHANGED br \/ ConfigureBuildroot \/ clbr \/ Wipe
         /\ half' \subseteq half \cup {defconf.out, Shared}
         /\ UNCHANGED kernel \/ Mark \/ Clean \/ Remark \/ ConfigureKernel \/ CompileKernel
         /\ UNCHANGED rootfs \/ UnpackRootfs \/ RootfsUnpacked \/ RemoveModules \/ CopyModules
         /\ hurt' \subseteq hurt \cup {env.KERN_VER, "rootfs"}
         /\ UNCHANGED broken \/ broken' = TRUE
         /\ UNCHANGED faults \/ (faults < Faults /\ faults' = faults + 1)
<1> USE DEF Tools
<1>1. CASE Begin
  BY <1>1 DEF Begin, mkbr, Goto, disk, NoFault, history, bounds
<1>2. CASE MakeToolDir
  BY <1>2 DEF MakeToolDir, NextTool, SetTool, Goto, disk, NoFault, history, bounds
<1>3. CASE Untar
  BY <1>3 DEF Untar, SetTool, Goto, disk, NoFault, history, bounds
<1>4. CASE TouchInstalled
  BY <1>4 DEF TouchInstalled, NextTool, SetTool, Goto, disk, NoFault, history, bounds
<1>5. CASE ConfigureBuildroot
  BY <1>5 DEF ConfigureBuildroot, Goto, disk, NoFault, history, bounds
<1>6. CASE MakeBuildroot
  BY <1>6 DEF MakeBuildroot, Goto, disk, NoFault, history, bounds
<1>7. CASE mkbrFails
  BY <1>7 DEF mkbrFails, LeaveHalf, Goto, disk, Fault, NoFault, history, bounds
<1>8. CASE PrepareKernel
  BY <1>8 DEF PrepareKernel, prepare_toolchain, mkbr, Goto, disk, NoFault, history, bounds
<1>9. CASE Mark
  BY <1>9 DEF Mark, WriteMark, InTree, Goto, disk, NoFault, history, bounds
<1>10. CASE Clean
  BY <1>10 DEF Clean, AfterClean, InTree, Goto, bounds
<1>11. CASE CleanFails
  BY <1>11 DEF CleanFails, AfterClean, Goto, disk, Fault
<1>12. CASE Remark
  BY <1>12 DEF Remark, WriteMark, InTree, Goto, NoFault, history, bounds
<1>13. CASE ConfigureKernel
  BY <1>13 DEF ConfigureKernel, InTree, Goto, disk, NoFault, history, bounds
<1>14. CASE CompileKernel
  BY <1>14 DEF CompileKernel, InTree, Goto, NoFault, history, bounds
<1>15. CASE CompileFails
  BY <1>15 DEF CompileFails, Goto, disk, Fault, NoFault, history, bounds
<1>16. CASE PrepareRootfs
  BY <1>16 DEF PrepareRootfs, prepare_toolchain, mkbr, Goto, disk, NoFault, history, bounds
<1>17. CASE MakeRootfs
  BY <1>17 DEF MakeRootfs, LeaveHalf, Goto, disk, Fault, NoFault, history, bounds
<1>18. CASE UnpackRootfs
  BY <1>18 DEF UnpackRootfs, InRootfs, Goto, disk, NoFault, history, bounds
<1>19. CASE RootfsUnpacked
  BY <1>19 DEF RootfsUnpacked, InRootfs, Goto, disk, Fault, NoFault, history, bounds
<1>20. CASE RemoveModules
  BY <1>20 DEF RemoveModules, InRootfs, Goto, NoFault, history, bounds
<1>21. CASE CopyModules
  BY <1>21 DEF CopyModules, InRootfs, Goto, disk, Fault, NoFault, history, bounds
<1>22. CASE MakeImage
  BY <1>22 DEF MakeImage, Goto, disk, Fault, NoFault, history, bounds
<1>23. CASE clbr
  BY <1>23 DEF clbr, Goto, NoFault, history, bounds
<1>24. CASE Wipe
  BY <1>24 DEF Wipe, Goto, bounds
<1> QED
  BY <1>1, <1>2, <1>3, <1>4, <1>5, <1>6, <1>7, <1>8, <1>9, <1>10, <1>11, <1>12, <1>13, <1>14, <1>15, <1>16, <1>17, <1>18, <1>19, <1>20, <1>21, <1>22, <1>23, <1>24 DEF LaterStep

LEMMA TypesLater ==
  ASSUME SelectionInv, LaterStep, DefconfInv, KernelInv, DiskTypes
  PROVE  DiskTypes'
<1>1. Building
  BY Later DEF SelectionInv, SelectionTypes, Building
<1>2. /\ env.KERN_VER \in KernVers /\ defconf \in [br : BrDefconfs, kern : Defconfs, out : Outs]
      /\ defconf.kern # "none" /\ (defconf.br # "" => \E r \in Rules : defconf.br = r.br)
  BY <1>1, BuildFacts
<1>3. tool' \in Tools /\ broken' \in BOOLEAN /\ hurt' \subseteq KernVers \cup {"toolchain", "rootfs"}
  BY <1>2, Changes DEF DiskTypes
<1>half. half' \subseteq Outs \cup {Shared}
  BY <1>2, Changes DEF DiskTypes
<1>4. faults' \in 0 .. Faults
  <2>1. faults \in 0 .. Faults /\ Faults \in Nat
    BY SdkBuildAssumption DEF DiskTypes
  <2>2. faults' = faults \/ (faults < Faults /\ faults' = faults + 1)
    BY Changes
  <2> QED
    BY <2>1, <2>2
<1>5. toolchain' \in Toolchains
  <2>1. toolchain \in Toolchains /\ tool \in Tools
    BY DEF DiskTypes
  <2>2. CASE MakeToolDir \/ Untar \/ TouchInstalled
    BY <2>1, <2>2 DEF MakeToolDir, Untar, TouchInstalled, SetTool, disk, Toolchains
  <2>3. CASE Wipe
    BY <2>3 DEF Wipe, Toolchains
  <2> QED
    BY <2>1, <2>2, <2>3, Changes
<1>6. br' \in BuildrootOutputs
  <2>1. br \in BuildrootOutputs
    BY DEF DiskTypes
  <2>2. CASE ConfigureBuildroot \/ clbr
    BY <1>2, <2>1, <2>2 DEF ConfigureBuildroot, clbr, BuildrootOutputs
  <2>3. CASE Wipe
    BY <2>3 DEF Wipe, BuildrootOutputs
  <2> QED
    BY <2>1, <2>2, <2>3, Changes
<1>7. kernel' \in [KernVers -> Trees]
  <2>1. kernel \in [KernVers -> Trees] /\ tree \in Trees
    BY <1>2 DEF DiskTypes, tree
  <2>2. ASSUME NEW t \in Trees, InTree(t)
        PROVE  kernel' \in [KernVers -> Trees]
    BY <2>1, <2>2 DEF InTree
  <2>3. [tree EXCEPT !.mark = defconf.kern] \in Trees
    BY <1>2, <2>1 DEF Trees
  <2>4. CASE Mark \/ Remark
    BY <2>1, <2>2, <2>3, <2>4 DEF Mark, Remark, WriteMark, disk
  <2>5. CASE Clean
    <3>1. [tree EXCEPT !.config = "none", !.built = "none"] \in Trees
      BY <2>1 DEF Trees
    <3> QED
      BY <2>2, <2>5, <3>1 DEF Clean
  <2>6. CASE ConfigureKernel
    <3>1. tree.config # "none" \/ defconf.kern # "" =>
            [tree EXCEPT !.config = IF @ = "none" THEN defconf.kern ELSE @] \in Trees
      BY <1>2, <2>1 DEF Trees
    <3> QED
      BY <2>1, <2>2, <2>6, <3>1 DEF ConfigureKernel, disk
  <2>7. CASE CompileKernel
    <3>1. [tree EXCEPT !.built = tree.config] \in Trees
      BY <2>1 DEF Trees
    <3> QED
      BY <2>2, <2>7, <3>1 DEF CompileKernel
  <2> QED
    BY <2>1, <2>4, <2>5, <2>6, <2>7, Changes
<1>8. rootfs' \in [files : {"none", "part", "whole"}, modules : SUBSET Defconfs]
  <2>1. rootfs \in [files : {"none", "part", "whole"}, modules : SUBSET Defconfs]
    BY DEF DiskTypes
  <2>2. CASE UnpackRootfs \/ RootfsUnpacked \/ RemoveModules
    BY <2>1, <2>2 DEF UnpackRootfs, RootfsUnpacked, RemoveModules, InRootfs, disk
  <2>3. CASE CopyModules
    <3>1. tree.built \in Defconfs \cup {"none"} /\ tree.built # "none"
      <4>1. at = "copy" /\ tree \in Trees
        BY <1>2, <2>3 DEF CopyModules, DiskTypes, tree
      <4> QED
        BY <4>1 DEF Trees, KernelInv, Stage, RootfsSteps, MkbrSteps
    <3> QED
      BY <2>1, <2>3, <3>1 DEF CopyModules, InRootfs, disk
  <2> QED
    BY <2>1, <2>2, <2>3, Changes
<1> QED
  BY <1>3, <1>4, <1>5, <1>6, <1>7, <1>8, <1>half DEF DiskTypes

LEMMA DiskInit == Init => DiskInv
<1> SUFFICES ASSUME Init PROVE DiskInv
  OBVIOUS
<1>1. SelectionTypes
  BY SelectionInit DEF SelectionInv
<1>2. TypeOK
  <2>1. NoRule \in [br : BrDefconfs, kern : Defconfs, out : Outs \cup {<<>>}]
    BY DEF NoRule, BrDefconfs, Defconfs
  <2>2. toolchain \in [Tools -> [files : {"none", "part", "whole"}, installed : BOOLEAN]]
    BY DEF Init
  <2>3. br \in [Outs -> (BrDefconfs \ {""}) \cup {"none", "asked"}]
    BY DEF Init
  <2>4. kernel \in [KernVers -> [mark : Defconfs \cup {"none"}, config : (Defconfs \ {""}) \cup {"none"},
                                 built : (Defconfs \ {""}) \cup {"none"}]]
    BY DEF Init
  <2>5. rootfs \in [files : {"none", "part", "whole"}, modules : SUBSET Defconfs]
    BY DEF Init
  <2>6. calls \in 0 .. Calls /\ faults \in 0 .. Faults
    <3>1. Calls \in Nat /\ Faults \in Nat /\ calls = 0 /\ faults = 0
      BY SdkBuildAssumption DEF Init
    <3> QED
      BY <3>1
  <2>7. tool \in Tools /\ back \in Steps \cup {"ok"} /\ half \subseteq Outs \cup {Shared} /\ hurt \subseteq KernVers \cup {"toolchain", "rootfs"}
        /\ broken \in BOOLEAN /\ at \in Steps \cup Ended
    BY DEF Init, Tools, Ended
  <2>8. command \in Full \cup {"none", "buildroot", "kernel", "clean", "distclean", "pack_debug"}
    BY DEF Init
  <2>9. defconf \in [br : BrDefconfs, kern : Defconfs, out : Outs \cup {<<>>}]
    BY <2>1 DEF Init
  <2> QED
    BY <1>1, <2>2, <2>3, <2>4, <2>5, <2>6, <2>7, <2>8, <2>9 DEF TypeOK, SelectionTypes
<1>3. command = "none" /\ at = "ok" /\ command \notin Full \cup {"kernel"} /\ Stage = "ok"
  BY DEF Init, Full, Stage, MkbrSteps
<1>4. Flow /\ DefconfInv /\ FailsOnlyByFault
  BY <1>3 DEF Flow, MkbrSteps, RootfsSteps, ImageSteps, DefconfInv, Building, Steps, FailsOnlyByFault
<1>5. KernelInv
  <2>1. MarksHold
    BY DEF Init, MarksHold
  <2> QED
    BY <1>3, <2>1 DEF KernelInv, RootfsSteps, Done
<1>6. ToolsInv
  BY <1>3 DEF Init, ToolsInv, Tools
<1>7. BuildrootInv
  BY <1>3 DEF Init, BuildrootInv, ConfigsRuled, Done
<1>8. RootfsInv
  BY <1>3 DEF Init, RootfsInv, ImageSteps, Done
<1> QED
  BY <1>2, <1>4, <1>5, <1>6, <1>7, <1>8 DEF DiskInv

\* TypeOK in the parts that the steps are split into.
LEMMA TypeParts ==
  TypeOK <=>
    /\ DiskTypes
    /\ command \in Full \cup {"none", "buildroot", "kernel", "clean", "distclean", "pack_debug"}
    /\ at \in Steps \cup Ended /\ todo \in Seq(Fields)
    /\ env \in [Fields -> Values] /\ buildconfig \in [Fields -> Values] /\ chosen \in [Fields -> Values]
    /\ defconf \in [br : BrDefconfs, kern : Defconfs, out : Outs \cup {<<>>}]
    /\ back \in Steps \cup {"ok"}
    /\ calls \in 0 .. Calls
BY DEF TypeOK, DiskTypes, Toolchains, BuildrootOutputs, Trees

LEMMA SetupTypes ==
  ASSUME SelectionInv, SelectionInv', TypeOK, SetupStep \/ Kill
  PROVE  /\ defconf' \in [br : BrDefconfs, kern : Defconfs, out : Outs \cup {<<>>}]
         /\ calls' \in 0 .. Calls
         /\ DefconfInv => DefconfInv'
<1>1. /\ defconf \in [br : BrDefconfs, kern : Defconfs, out : Outs \cup {<<>>}]
      /\ calls \in 0 .. Calls
  BY DEF TypeOK
<1>2. NoRule \in [br : BrDefconfs, kern : Defconfs, out : Outs \cup {<<>>}]
  BY DEF NoRule, BrDefconfs, Defconfs
<1>3. CASE Call
  <2>1. defconf' = NoRule /\ (calls' = calls \/ (calls < Calls /\ calls' = calls + 1)) /\ at' \in {"select", "defconf"}
    BY <1>3 DEF Call, Ask, Arguments, select_board_ex, Plain
  <2>2. Calls \in Nat
    BY SdkBuildAssumption
  <2>3. calls' \in 0 .. Calls
    BY <1>1, <2>1, <2>2
  <2> QED
    BY <1>2, <2>1, <2>3 DEF DefconfInv, Building
<1>4. CASE WriteField
  <2>1. UNCHANGED <<at, env, defconf, calls>>
    BY <1>4 DEF WriteField, NoFault, bounds
  <2> QED
    BY <1>1, <2>1 DEF DefconfInv, Building
<1>5. CASE Selected \/ Refused
  <2>1. UNCHANGED <<defconf, calls>> /\ at' \in {"defconf", "failed"}
    BY <1>5 DEF Selected, Refused, Goto, NoFault, bounds
  <2> QED
    BY <1>1, <2>1 DEF DefconfInv, Building, Steps
<1>6. CASE init_defconf
  <2>1. at = "defconf" /\ check_env(env) /\ defconf' = Defconf(env) /\ UNCHANGED <<env, calls>>
    BY <1>6 DEF init_defconf, bounds
  <2>2. Selectable(env)
    BY <2>1, EnvOfBuild
  <2>3. Defconf(env) \in [br : BrDefconfs, kern : Defconfs, out : Outs]
    BY <2>2, DefconfFacts
  <2>4. defconf' \in [br : BrDefconfs, kern : Defconfs, out : Outs \cup {<<>>}]
    BY <2>1, <2>3
  <2>5. DefconfInv'
    BY <2>1 DEF DefconfInv
  <2> QED
    BY <1>1, <2>1, <2>4, <2>5
<1>7. CASE Kill
  <2>1. defconf' = NoRule /\ UNCHANGED calls /\ at' = "killed"
    BY <1>7 DEF Kill, Killed
  <2> QED
    BY <1>1, <1>2, <2>1 DEF DefconfInv, Building, Steps
<1> QED
  BY <1>3, <1>4, <1>5, <1>6, <1>7 DEF SetupStep

LEMMA KillTypes ==
  ASSUME SelectionInv, DefconfInv, Kill, DiskTypes
  PROVE  DiskTypes'
<1>1. UNCHANGED <<tool, kernel, rootfs>> /\ broken' = FALSE /\ faults < Faults /\ faults' = faults + 1
  BY DEF Kill, Killed, LeaveHalf, Torn, disk
<1>half. half' \subseteq Outs \cup {Shared}
  <2>1. Building => defconf.out \in Outs
    BY BuildFacts
  <2> QED
    BY <2>1, KillStep DEF DiskTypes
<1>2. faults' \in 0 .. Faults
  <2>1. faults \in 0 .. Faults /\ Faults \in Nat
    BY SdkBuildAssumption DEF DiskTypes
  <2> QED
    BY <1>1, <2>1
<1>3. hurt' \subseteq KernVers \cup {"toolchain", "rootfs"}
  BY KillStep DEF DiskTypes
<1>4. br' \in BuildrootOutputs
  <2>1. br \in BuildrootOutputs
    BY DEF DiskTypes
  <2>2. ASSUME NEW gone, br' = [o \in Outs |-> IF o \in gone THEN "none" ELSE br[o]]
        PROVE  br' \in BuildrootOutputs
    BY <2>1, <2>2 DEF BuildrootOutputs
  <2> QED
    BY <2>1, <2>2, KillStep
<1>5. toolchain' \in Toolchains
  <2>1. ASSUME NEW t \in Tools, NEW x \in LeftOf(t)
        PROVE  x \in [files : {"none", "part", "whole"}, installed : BOOLEAN]
    <3>1. toolchain[t] \in [files : {"none", "part", "whole"}, installed : BOOLEAN]
      BY <2>1 DEF DiskTypes, Toolchains
    <3>2. toolchain[t].installed \in BOOLEAN
      BY <3>1
    <3>3. \/ x = toolchain[t]
          \/ x = [files |-> "none", installed |-> FALSE]
          \/ \E i \in {FALSE, toolchain[t].installed} : x = [files |-> "part", installed |-> i]
      BY <2>1 DEF LeftOf
    <3>4. ASSUME NEW i \in BOOLEAN
          PROVE  /\ [files |-> "part", installed |-> i] \in [files : {"none", "part", "whole"}, installed : BOOLEAN]
                 /\ [files |-> "none", installed |-> i] \in [files : {"none", "part", "whole"}, installed : BOOLEAN]
      OBVIOUS
    <3>5. CASE \E i \in {FALSE, toolchain[t].installed} : x = [files |-> "part", installed |-> i]
      <4>1. PICK i \in BOOLEAN : x = [files |-> "part", installed |-> i]
        BY <3>2, <3>5
      <4> QED
        BY <4>1, <3>4
    <3> QED
      BY <3>1, <3>3, <3>4, <3>5
  <2>2. CASE UNCHANGED toolchain
    BY <2>2 DEF DiskTypes
  <2>3. ASSUME NEW a \in LeftOf("external-toolchain"), NEW b \in LeftOf("external-toolchain_32"),
               toolchain' = [t \in Tools |-> IF t = "external-toolchain" THEN a ELSE b]
        PROVE  toolchain' \in Toolchains
    <3>1. /\ a \in [files : {"none", "part", "whole"}, installed : BOOLEAN]
          /\ b \in [files : {"none", "part", "whole"}, installed : BOOLEAN]
      BY <2>1 DEF Tools
    <3> QED
      BY <2>3, <3>1 DEF Toolchains
  <2> QED
    BY <2>2, <2>3 DEF Kill, LeaveHalf, disk
<1> QED
  BY <1>1, <1>2, <1>3, <1>4, <1>5, <1>half DEF DiskTypes

LEMMA DiskNext == SelectionInv /\ DiskInv /\ [Next]_vars => DiskInv'
<1> SUFFICES ASSUME SelectionInv, DiskInv, [Next]_vars PROVE DiskInv'
  OBVIOUS
<1>1. SelectionInv'
  BY SelectionNext
<1>2. /\ TypeOK /\ Flow /\ DefconfInv /\ KernelInv /\ ToolsInv /\ BuildrootInv /\ RootfsInv
      /\ FailsOnlyByFault
  BY DEF DiskInv
<1>3. DiskTypes
  BY <1>2, TypeParts
<1>4. ASSUME DiskTypes', calls' \in 0 .. Calls,
             defconf' \in [br : BrDefconfs, kern : Defconfs, out : Outs \cup {<<>>}]
      PROVE  TypeOK'
  BY <1>1, <1>4 DEF SelectionInv, SelectionTypes, TypeOK, DiskTypes, Toolchains, BuildrootOutputs, Trees,
                    Asked, Full, ReturnSteps, Steps
<1>5. CASE SetupStep
  <2>1. /\ UNCHANGED <<tool, back, toolchain, br, half, kernel, rootfs, hurt, faults>>
        /\ at' \in {"select", "defconf", "info", "failed"} /\ at # "unpack"
        /\ at' = "failed" => ~check_env(env)'
    BY <1>5, Setup DEF Before
  <2>2. TypeOK' /\ DefconfInv'
    <3>1. broken' \in BOOLEAN
      BY <1>3, <1>5
      DEF SetupStep, Call, WriteField, Selected, Refused, init_defconf, NoFault, history, DiskTypes
    <3>2. DiskTypes'
      BY <1>3, <2>1, <3>1 DEF DiskTypes
    <3> QED
      BY <1>1, <1>2, <1>4, <1>5, <3>2, SetupTypes
  <2>3. Stage' = at' /\ Stage' \notin RootfsSteps \cup {"mkkernel", "mark", "remark", "config", "compile", "clkernel", "clean", "ok"}
    BY <2>1 DEF Stage, MkbrSteps, RootfsSteps
  <2>4. Flow'
    BY <2>1, <2>3 DEF Flow, MkbrSteps, ImageSteps
  <2>5. KernelInv'
    BY <1>2, <2>1, <2>3 DEF KernelInv, MarksHold, Done
  <2>6. ToolsInv'
    BY <1>2, <2>1 DEF ToolsInv, MkbrSteps, Steps, Whole
  <2>7. BuildrootInv'
    BY <1>2, <2>1, <2>3 DEF BuildrootInv, ConfigsRuled, BuildrootConfigured, Done
  <2>8. RootfsInv'
    BY <1>2, <2>1 DEF RootfsInv, ImageSteps, Done
  <2>9. FailsOnlyByFault'
    BY <2>1 DEF FailsOnlyByFault
  <2> QED
    BY <2>2, <2>4, <2>5, <2>6, <2>7, <2>8, <2>9 DEF DiskInv
<1>6. CASE LaterStep
  <2>1. UNCHANGED <<env, defconf, calls, at>> \/ UNCHANGED <<env, defconf, calls>>
    BY <1>6, Later DEF SelectionInv, SelectionTypes
  <2>2. DiskTypes'
    BY <1>2, <1>3, <1>6, TypesLater
  <2>3. TypeOK'
    BY <1>2, <1>4, <2>1, <2>2 DEF TypeOK
  <2>4. DefconfInv'
    BY <1>2, <1>6, <2>1, Later DEF DefconfInv, Building, SelectionInv, SelectionTypes
  <2>5. kernel \in [KernVers -> Trees] /\ tool \in Tools /\ toolchain \in Toolchains /\ br \in BuildrootOutputs
        /\ broken \in BOOLEAN /\ rootfs \in [files : {"none", "part", "whole"}, modules : SUBSET Defconfs]
    BY <1>3 DEF DiskTypes
  <2>6. Flow' /\ KernelInv' /\ ToolsInv' /\ BuildrootInv' /\ RootfsInv' /\ FailsOnlyByFault'
    BY <1>2, <1>6, <2>5, FlowLater, KernelLater, ToolsLater, BuildrootLater, RootfsLater, FailsLater
  <2> QED
    BY <2>3, <2>4, <2>6 DEF DiskInv
<1>7. CASE Kill
  <2>1. /\ at' = "killed" /\ command' = "none" /\ UNCHANGED <<kernel, rootfs>>
        /\ hurt \subseteq hurt'
        /\ at = "unpack" => "rootfs" \in hurt'
        /\ UNCHANGED toolchain \/ "toolchain" \in hurt'
        /\ \A o \in Outs : br'[o] \in {br[o], "none"}
    BY <1>7, KillStep
  <2>2. TypeOK' /\ DefconfInv'
    BY <1>1, <1>2, <1>3, <1>4, <1>7, KillTypes, SetupTypes
  <2>3. Stage' = at' /\ Stage' \notin RootfsSteps
    BY <2>1 DEF Stage, MkbrSteps, RootfsSteps
  <2>4. Flow'
    BY <2>1, <2>3 DEF Flow, MkbrSteps, ImageSteps
  <2>5. KernelInv'
    BY <1>2, <2>1, <2>3 DEF KernelInv, MarksHold, Done
  <2>6. ToolsInv'
    BY <1>2, <2>1 DEF ToolsInv, Full, Whole
  <2>7. BuildrootInv'
    BY <1>2, <2>1 DEF BuildrootInv, ConfigsRuled, Full, Done
  <2>8. RootfsInv'
    BY <1>2, <2>1 DEF RootfsInv, ImageSteps, Done
  <2>9. FailsOnlyByFault'
    BY <2>1 DEF FailsOnlyByFault
  <2> QED
    BY <2>2, <2>4, <2>5, <2>6, <2>7, <2>8, <2>9 DEF DiskInv
<1>8. CASE UNCHANGED vars
  <2>1. /\ UNCHANGED <<command, at, todo, env, defconf, tool, back>>
        /\ UNCHANGED <<buildconfig, toolchain, br, half, kernel, rootfs>>
        /\ UNCHANGED <<chosen, hurt, broken, calls, faults>>
    BY <1>8 DEF vars, process, disk, history, bounds
  <2>2. TypeOK'
    BY <1>2, <2>1 DEF TypeOK
  <2>3. Flow' /\ DefconfInv' /\ FailsOnlyByFault'
    BY <1>2, <2>1 DEF Flow, Stage, DefconfInv, Building, FailsOnlyByFault, HalfMade, HasBuildroot, check_env
  <2>4. KernelInv'
    BY <1>2, <2>1, ZenonT(30) DEF KernelInv, MarksHold, Stage, Done, tree
  <2>7. RootfsInv'
    BY <1>2, <2>1, ZenonT(30) DEF RootfsInv, Done, tree
  <2>5. ToolsInv'
    BY <1>2, <2>1 DEF ToolsInv, Whole
  <2>6. BuildrootInv'
    BY <1>2, <2>1 DEF BuildrootInv, ConfigsRuled, BuildrootConfigured, Stage, Done, HasBuildroot
  <2> QED
    BY <2>2, <2>3, <2>4, <2>5, <2>6, <2>7 DEF DiskInv
<1> QED
  BY <1>5, <1>6, <1>7, <1>8, StepKinds

THEOREM DiskInvariant == Spec => []DiskInv
<1> QED
  BY SelectionInit, SelectionNext, DiskInit, DiskNext, PTL DEF Spec

\* Every variable has its type in every run, and every step of the scripts finds the
\* directories and files it names (TypeOK).
THEOREM TypeCorrect == Spec => []TypeOK
<1>1. DiskInv => TypeOK
  BY DEF DiskInv
<1> QED
  BY <1>1, DiskInvariant, PTL

\* A build that says it is OK has built the kernel and the buildroot of its selection, in
\* trees that all selections share (BuiltAsSelected).
THEOREM SelectedBuilt == Spec => []BuiltAsSelected
<1>1. SelectionInv /\ DiskInv => BuiltAsSelected
  <2> SUFFICES ASSUME SelectionInv, DiskInv, at = "ok", command \in Full \cup {"kernel"}
               PROVE  /\ tree.built # "none"
                      /\ defconf.kern # "" /\ env.KERN_VER \notin hurt => tree.built = defconf.kern
                      /\ command # "kernel" /\ HasBuildroot /\ defconf.br # "" =>
                           br[defconf.out] \in {defconf.br, "asked"}
    BY DEF BuiltAsSelected
  <2>1. KernelInv /\ BuildrootInv /\ Done(Full \cup {"kernel"})
    BY DEF DiskInv, Done
  <2>2. /\ tree.built # "none"
        /\ defconf.kern # "" /\ env.KERN_VER \notin hurt => tree.built = defconf.kern
    BY <2>1 DEF KernelInv
  <2>3. ASSUME command # "kernel", HasBuildroot, defconf.br # ""
        PROVE  br[defconf.out] \in {defconf.br, "asked"}
    <3>1. Done(Full) /\ br[defconf.out] # "none"
      BY <2>1, <2>3 DEF BuildrootInv, BuildrootConfigured, Stage, MkbrSteps, Done
    <3>2. defconf.out \in Outs
      BY <2>1, <3>1 DEF BuildrootInv
    <3>3. PICK r \in Rules : RuledBy(r, defconf.out) /\ defconf.br = r.br
      BY <2>1, <2>3, <3>1 DEF BuildrootInv
    <3>4. br[defconf.out] = "asked" \/ \E q \in Rules : RuledBy(q, defconf.out) /\ br[defconf.out] = q.br
      BY <2>1, <3>1, <3>2 DEF BuildrootInv, ConfigsRuled
    <3>5. ASSUME NEW q \in Rules, RuledBy(q, defconf.out)
          PROVE  q.br = r.br
      <4>1. \A k \in 1 .. 2 : r.pattern[k] = q.pattern[k]
        <5>1. \A k \in 1 .. 2 : k = 1 \/ k = 2
          OBVIOUS
        <5> QED
          BY <3>3, <3>5, <5>1 DEF RuledBy
      <4> QED
        BY <4>1, SdkBuildAssumption
    <3> QED
      BY <3>3, <3>4, <3>5
  <2> QED
    BY <2>2, <2>3
<1> QED
  BY <1>1, SelectionInvariant, DiskInvariant, PTL

\* A full build fails only from a command that fails in this very call, or from what a
\* make or the removal of buildroot left when it was stopped, and then only on the
\* platforms that have one; the rest of what earlier calls left does not stop it
\* (FailsOnlyByFault).
THEOREM OnlyFaultsFail == Spec => []FailsOnlyByFault
<1>1. DiskInv => FailsOnlyByFault
  BY DEF DiskInv
<1> QED
  BY <1>1, DiskInvariant, PTL

\* The image of a full dragonboard build has the modules of its kernel and no others, and
\* a whole root filesystem (RootfsComplete).
THEOREM WholeRootfs == Spec => []RootfsComplete
<1>1. DiskInv => RootfsComplete
  <2> SUFFICES ASSUME DiskInv, at = "ok", command \in Full, env.PLATFORM = "dragonboard"
               PROVE  /\ broken \/ rootfs.modules = {tree.built}
                      /\ rootfs.files = "whole" \/ "rootfs" \in hurt
    BY DEF RootfsComplete
  <2>1. RootfsInv /\ Done(Full) /\ rootfs.files \in {"none", "part", "whole"}
    BY DEF DiskInv, TypeOK, Done
  <2> QED
    BY <2>1 DEF RootfsInv
<1> QED
  BY <1>1, DiskInvariant, PTL

=============================================================================
