----------------------------- MODULE MCTestRun -----------------------------
(* Small boards: sections as they are found in test_config.fex, in several *)
(* orders, with a touch panel that is skipped, a section that is inactive, *)
(* a program that is missing and one that never ends, waited for or not.   *)
EXTENDS TestRun

Section(name, program, category, run_type) ==
  [name |-> name, display_name |-> TRUE, activated |-> 1,
   program |-> program, category |-> category, run_type |-> run_type]

mem == Section("mem", "memtester", AUTO, WAIT)
wifi == Section("wifi", "wifitester", AUTO, NO_WAIT)
key == Section("key", "keytester", MANUAL, WAIT)
bare == Section("bare", Absent, AUTO, Absent)
gone == Section("gone", "gonetester", MANUAL, NO_WAIT)
panel == Section(tp, Absent, MANUAL, Absent)
off == [mem EXCEPT !.activated = 0]

Boards == {<<mem, panel, key>>, <<panel, wifi, bare, mem>>, <<off, gone, wifi>>, <<off>>,
           <<[key EXCEPT !.category = AUTO], mem>>,
           <<key, [panel EXCEPT !.category = AUTO], mem>>}
=============================================================================
