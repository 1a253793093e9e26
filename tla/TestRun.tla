------------------------------ MODULE TestRun ------------------------------
(***************************************************************************)
(* A factory test run on the dragonboard: the core process (core/core.c),  *)
(* the launcher (core/launcher.c), the test programs that the launcher     *)
(* forks, and the named pipe /tmp/cmd_pipe through which all of them talk  *)
(* to the core, which shows the results (the items of view/df_view.c).     *)
(*                                                                         *)
(* Test case i of the model has the id i - 1 in the code, and the built-in *)
(* touch panel item, BUILDIN_TC_ID_TP, is 0.  A line on the pipe is        *)
(* written by one write() shorter than PIPE_BUF: lines are never mixed.    *)
(***************************************************************************)
EXTENDS TestCaseTable, FiniteSets

CONSTANTS
  Configs,     \* the contents of test_config.fex: sequences of sections
  Screens,     \* whether the display is an LCD: a set of booleans
  Runnable,    \* programs that execvp finds
  Endless,     \* programs that report until the board is switched off
  Faults,      \* what may go wrong (AllFaults)
  PipeCap,     \* bound: lines that fit in the pipe
  MaxTests,    \* bound: the sections of a configuration
  MaxReports   \* bound: lines that one test program writes

AllFaults == {"launcher",  \* the launcher cannot be forked, run, or attach the table
              "fork",      \* a test program cannot be forked
              "crash"}     \* a test program dies

Entry == [name : STRING, binary : STRING, category : Int, run_type : Int]

ASSUME TestRunAssumption ==
  /\ Screens \subseteq BOOLEAN
  /\ Faults \subseteq AllFaults
  /\ NoProgram \notin Runnable
  /\ PipeCap \in Nat \ {0} /\ MaxTests \in Nat /\ MaxReports \in Nat \ {0}

ASSUME ConfigsAssumption ==
  /\ Configs \subseteq Seq(Sections)
  /\ \A c \in Configs : Len(c) <= MaxTests
  /\ NoProgram \in STRING

VARIABLES
  config,   \* the configuration of this board
  lcd,      \* its display is an LCD
  core,     \* where the core process is
  info,     \* base_info, the shared table of test cases
  rows,     \* rows[c]: the test cases that the window of category c has room for
  drawn,    \* test cases that draw_testcases has passed
  status,   \* status[i]: the state of item i; only items on display have one
  launcher, \* where the launcher is
  next,     \* the test case that the launcher is at
  waits,    \* no_wait_task_list
  tester,   \* tester[i]: where the program of test case i is
  sent,     \* sent[i]: how many lines it has written
  said,     \* said[i]: the last result written about i (history)
  pipe      \* the lines in the pipe

board == <<config, lcd>>
view == <<info, rows, drawn, status>>
launch == <<launcher, next, waits>>
tests == <<tester, sent, said>>
vars == <<config, lcd, core, info, rows, drawn, status, launcher, next, waits,
          tester, sent, said, pipe>>

Ids == DOMAIN info
UNTESTED == -1
OK == 0
FAIL == 1
Results == {UNTESTED, OK, FAIL}
Lines == (Ids \cup {0}) \X Results
DONE == <<0, OK>>     \* TEST_COMPLETION; no test case is 0

-----------------------------------------------------------------------------
Init ==
  /\ config \in Configs
  /\ lcd \in Screens
  /\ core = "parse"
  /\ info = <<>>
  /\ rows = [c \in {AUTO, MANUAL} |-> 0]
  /\ drawn = 0
  /\ status = <<>>
  /\ launcher = "none"
  /\ next = 1
  /\ waits = <<>>
  /\ tester = <<>>
  /\ sent = <<>>
  /\ said = <<>>
  /\ pipe = <<>>

(* The core process.                                                       *)

\* A variant: no row for the built-in touch panel item.
RowsWithoutTp(parsed) ==
  [c \in {AUTO, MANUAL} |-> IF c = AUTO THEN parsed.auto ELSE parsed.manual]

\* The windows are sized by the counters; on an LCD the manual one has a row more.
Rows(parsed) ==
  [c \in {AUTO, MANUAL} |->
     IF c = AUTO THEN parsed.auto ELSE parsed.manual + (IF lcd THEN 1 ELSE 0)]

\* parse_testcase, then init_view, where buildin_tc_init takes that row.
ParseAndInitView ==
  /\ core = "parse"
  /\ LET parsed == parse_testcase(config)
         n == Len(parsed.info)
     IN /\ info' = parsed.info
        /\ core' = IF n = 0 THEN "exit" ELSE "draw"
        /\ rows' = Rows(parsed)
        /\ tester' = [i \in 1 .. n |-> "none"]
        /\ sent' = [i \in 1 .. n |-> 0]
        /\ said' = [i \in 1 .. n |-> UNTESTED]
  /\ status' = [i \in (IF lcd THEN {0} ELSE {}) |-> UNTESTED]
  /\ UNCHANGED <<board, drawn, launch, pipe>>

CategoryOf(i) == IF i = 0 THEN MANUAL ELSE info[i].category

Items(c) == {i \in DOMAIN status : CategoryOf(i) = c}

\* A variant: the item goes by the number of the next test case.
InsertedOffByOne(i) ==
  IF Cardinality(Items(CategoryOf(i))) < rows[CategoryOf(i)]
  THEN [j \in DOMAIN status \cup {i + 1} |-> IF j = i + 1 THEN UNTESTED ELSE status[j]]
  ELSE status

\* df_insert_item: an item of an unknown category, or that does not fit, is dropped.
Inserted(i) ==
  IF /\ CategoryOf(i) \in {AUTO, MANUAL}
     /\ Cardinality(Items(CategoryOf(i))) < rows[CategoryOf(i)]
  THEN [j \in DOMAIN status \cup {i} |-> IF j = i THEN UNTESTED ELSE status[j]]
  ELSE status

DrawTestcase ==
  /\ core = "draw" /\ drawn < Len(info)
  /\ drawn' = drawn + 1
  /\ status' = IF info[drawn + 1].name = tp THEN status ELSE Inserted(drawn + 1)
  /\ UNCHANGED <<board, core, info, rows, launch, tests, pipe>>

\* mkfifo, fork of the launcher; the core then opens the pipe, which blocks.
ForkLauncher ==
  /\ core = "draw" /\ drawn = Len(info)
  /\ core' = "open"
  /\ \/ launcher' = "open"
     \/ "launcher" \in Faults /\ launcher' = "lost"
  /\ UNCHANGED <<board, view, next, waits, tests, pipe>>

\* fopen of a named pipe returns when both ends are there.
OpenPipe ==
  /\ core = "open" /\ launcher = "open"
  /\ core' = "listen"
  /\ \/ launcher' = "run"
     \/ "launcher" \in Faults /\ launcher' = "lost"
  /\ UNCHANGED <<board, view, next, waits, tests, pipe>>

\* A variant: an item that has a result keeps it.
UpdatedOnce(i, r) ==
  IF i \in DOMAIN status /\ status[i] = UNTESTED THEN [status EXCEPT ![i] = r] ELSE status

\* df_update_item: results for something that is not on display are dropped.
Updated(i, r) == IF i \in DOMAIN status THEN [status EXCEPT ![i] = r] ELSE status

\* One line from the pipe.
Listen ==
  /\ core = "listen" /\ pipe # <<>>
  /\ pipe' = Tail(pipe)
  /\ IF Head(pipe) = DONE
     THEN core' = "over" /\ UNCHANGED status
     ELSE status' = Updated(Head(pipe)[1], Head(pipe)[2]) /\ UNCHANGED core
  /\ UNCHANGED <<board, info, rows, drawn, launch, tests>>

\* The event thread of the view: the touch panel works.
Touch ==
  /\ 0 \in DOMAIN status
  /\ status' = Updated(0, OK)
  /\ UNCHANGED <<board, core, info, rows, drawn, launch, tests, pipe>>

-----------------------------------------------------------------------------
(* The launcher.                                                           *)

Room == Len(pipe) < PipeCap

Write(i, r) ==
  /\ Room
  /\ pipe' = Append(pipe, <<i, r>>)
  /\ said' = [said EXCEPT ![i] = r]

\* A test case without a program fails at once.
NoBinary ==
  /\ launcher = "run" /\ next <= Len(info)
  /\ info[next].binary = NoProgram
  /\ Write(next, FAIL)
  /\ next' = next + 1
  /\ UNCHANGED <<board, core, view, launcher, waits, tester, sent>>

\* A variant: the run types are mixed up.
WaitedSwapped(i) == info[i].run_type = NO_WAIT /\ info[i].category = AUTO

\* "we only wait auto test case due to system performance"
Waited(i) == info[i].run_type = WAIT /\ info[i].category = AUTO

RunOneTestcase ==
  /\ launcher = "run" /\ next <= Len(info)
  /\ info[next].binary # NoProgram
  /\ tester' = [tester EXCEPT ![next] = "forked"]
  /\ IF Waited(next) THEN launcher' = "wait" /\ UNCHANGED <<next, waits>>
     ELSE /\ waits' = <<next>> \o waits
          /\ next' = next + 1
          /\ UNCHANGED launcher
  /\ UNCHANGED <<board, core, view, sent, said, pipe>>

\* fork fails: run_one_testcase returns -1 and nobody looks at it.
ForkFails ==
  /\ "fork" \in Faults
  /\ launcher = "run" /\ next <= Len(info)
  /\ info[next].binary # NoProgram
  /\ next' = next + 1
  /\ UNCHANGED <<board, core, view, launcher, waits, tests, pipe>>

WaitCompletion ==
  /\ launcher = "wait" /\ tester[next] = "ended"
  /\ launcher' = "run"
  /\ next' = next + 1
  /\ UNCHANGED <<board, core, view, waits, tests, pipe>>

\* A variant: the tasks that are not waited for at once are not waited for at all.
WaitNoWaitTaskForgotten ==
  /\ launcher = "run" /\ next > Len(info)
  /\ waits # <<>>
  /\ waits' = Tail(waits)
  /\ UNCHANGED <<board, core, view, launcher, next, tests, pipe>>

\* The tasks in no_wait_task_list are waited for one by one, the latest first.
WaitNoWaitTask ==
  /\ launcher = "run" /\ next > Len(info)
  /\ waits # <<>> /\ tester[Head(waits)] = "ended"
  /\ waits' = Tail(waits)
  /\ UNCHANGED <<board, core, view, launcher, next, tests, pipe>>

\* A variant: the launcher ends without a word.
CleanUpSilent ==
  /\ launcher = "run" /\ next > Len(info) /\ waits = <<>>
  /\ launcher' = "gone"
  /\ UNCHANGED <<board, core, view, next, waits, tests, pipe>>

CleanUp ==
  /\ launcher = "run" /\ next > Len(info) /\ waits = <<>>
  /\ Room
  /\ pipe' = Append(pipe, DONE)
  /\ launcher' = "gone"
  /\ UNCHANGED <<board, core, view, next, waits, tests>>

-----------------------------------------------------------------------------
(* The test programs.                                                      *)

Exec(i) ==
  /\ tester[i] = "forked" /\ info[i].binary \in Runnable
  /\ tester' = [tester EXCEPT ![i] = "running"]
  /\ UNCHANGED <<board, core, view, launch, sent, said, pipe>>

\* execvp fails: the child reports the failure itself.
CannotExec(i) ==
  /\ tester[i] = "forked" /\ info[i].binary \notin Runnable
  /\ Write(i, FAIL)
  /\ tester' = [tester EXCEPT ![i] = "ended"]
  /\ UNCHANGED <<board, core, view, launch, sent>>

\* SEND_CMD_PIPE_OK, _FAIL and, in shell scripts, _MSG (still untested).
Report(i, r) ==
  /\ tester[i] = "running"
  /\ sent[i] < (IF r = UNTESTED THEN MaxReports - 1 ELSE MaxReports)
  /\ Write(i, r)
  /\ sent' = [sent EXCEPT ![i] = @ + 1]
  /\ UNCHANGED <<board, core, view, launch, tester>>

\* A program that ends by itself has reported a result.
Exit(i) ==
  /\ tester[i] = "running"
  /\ info[i].binary \notin Endless /\ said[i] # UNTESTED
  /\ tester' = [tester EXCEPT ![i] = "ended"]
  /\ UNCHANGED <<board, core, view, launch, sent, said, pipe>>

Crash(i) ==
  /\ "crash" \in Faults
  /\ tester[i] = "running"
  /\ tester' = [tester EXCEPT ![i] = "ended"]
  /\ UNCHANGED <<board, core, view, launch, sent, said, pipe>>

-----------------------------------------------------------------------------
CoreStep == ParseAndInitView \/ DrawTestcase \/ ForkLauncher \/ OpenPipe \/ Listen

LauncherStep ==
  NoBinary \/ RunOneTestcase \/ WaitCompletion \/ WaitNoWaitTask \/ CleanUp

TesterStep(i) ==
  /\ i \in Ids
  /\ Exec(i) \/ CannotExec(i) \/ Exit(i) \/ Report(i, OK) \/ Report(i, FAIL)

Next ==
  \/ CoreStep
  \/ Touch
  \/ LauncherStep
  \/ ForkFails
  \/ \E i \in Ids : TesterStep(i) \/ Report(i, UNTESTED) \/ Crash(i)

Spec == Init /\ [][Next]_vars

\* All processes are scheduled; a program that is not endless comes to its end.
FairSpec ==
  /\ Spec
  /\ WF_vars(CoreStep)
  /\ WF_vars(LauncherStep)
  /\ \A i \in 1 .. MaxTests : WF_vars(TesterStep(i))

-----------------------------------------------------------------------------
(* Properties.                                                             *)

\* Every variable keeps its type.
TypeOK ==
  /\ config \in Configs /\ lcd \in BOOLEAN
  /\ core \in {"parse", "draw", "open", "listen", "over", "exit"}
  /\ info \in Seq(Entry)
  /\ rows \in [{AUTO, MANUAL} -> Nat]
  /\ drawn \in 0 .. Len(info)
  /\ DOMAIN status \subseteq Ids \cup {0}
  /\ \A i \in DOMAIN status : status[i] \in Results
  /\ launcher \in {"none", "open", "run", "wait", "gone", "lost"}
  /\ next \in 1 .. Len(info) + 1
  /\ waits \in Seq(Ids)
  /\ tester \in [Ids -> {"none", "forked", "running", "ended"}]
  /\ sent \in [Ids -> 0 .. MaxReports]
  /\ said \in [Ids -> Results]
  /\ pipe \in Seq(Lines)

\* The table of a well-formed configuration lists the sections that are active, in
\* their order, without the touch panel the view tests itself: nothing of a section
\* that was passed over shows in another one.
TableIsSelection ==
  core # "parse" /\ (\A i \in DOMAIN config : Complete(config[i]))
    => Lists(info, config)

\* The counters that size the windows agree with the items drawn: with a category in
\* every section each test case of a known category is on display, on every screen.
EveryItemFits ==
  core \notin {"parse", "draw", "exit"} /\ (\A i \in DOMAIN config : Complete(config[i]))
    => \A i \in Ids : info[i].category \in {AUTO, MANUAL} /\ info[i].name # tp
                        => i \in DOMAIN status

\* An automatic test case of run type WAIT_COMPLETION has the board for itself, as far
\* as the test cases after it go: none is started before its program has ended.
WaitedTestsRunAlone ==
  \A i, j \in Ids :
    /\ i < j /\ tester[j] # "none"
    /\ info[i].run_type = WAIT /\ info[i].category = AUTO
    => tester[i] \in {"none", "ended"}

\* When the core stops listening nothing is left to hear: every program has ended,
\* and each item shows the last result that was written about its test case.
NothingMissedAtTheEnd ==
  core = "over" =>
    /\ pipe = <<>>
    /\ \A i \in Ids : tester[i] \in {"none", "ended"}
    /\ \A i \in DOMAIN status \ {0} : status[i] = said[i]

Reported(i, r) == i \in Ids /\ said[i] = r
Shown(i, r) == i \in DOMAIN status /\ status[i] = r

\* Every result that is written gets to the screen, unless a later one replaces it,
\* even if other programs never end.
EveryResultIsShown ==
  \A i \in 1 .. MaxTests, r \in {OK, FAIL} :
    (core = "listen" /\ i \in DOMAIN status /\ Reported(i, r))
      ~> (Shown(i, r) \/ ~Reported(i, r))

\* Once the core listens all test cases get started, except after one that is waited
\* for and never ends; and if no program is endless the test run comes to its end.
RunCompletes ==
  /\ core = "listen" ~> \/ launcher = "lost"
                        \/ next > Len(info)
                        \/ launcher = "wait" /\ info[next].binary \in Endless
  /\ (core = "listen" /\ \A i \in Ids : info[i].binary \notin Endless)
       ~> (launcher = "lost" \/ core = "over")
=============================================================================
