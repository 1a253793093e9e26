--------------------------- MODULE TestCaseTable ---------------------------
(***************************************************************************)
(* parse_testcase of target/dragonboard/src/core/core.c: how the sections  *)
(* of /boot/test_config.fex become the table of test cases that the core   *)
(* shares with the launcher, and the two counters that the view sizes its  *)
(* windows with.                                                           *)
(*                                                                         *)
(* A section is a record of what script_fetch finds in it.                 *)
(***************************************************************************)
EXTENDS Integers, SequencesExt

CONSTANTS
  tp,         \* the name of the touch panel section
  NoProgram,  \* the empty string
  Absent      \* script_fetch fails: the section has no such key

AUTO == 0     \* CATEGORY_AUTO
MANUAL == 1   \* CATEGORY_MANUAL
WAIT == 0     \* WAIT_COMPLETION
NO_WAIT == 1  \* NO_WAIT_COMPLETION

\* What script_fetch finds in a section; an empty display name is FALSE.
Sections ==
  [name : STRING, display_name : BOOLEAN \cup {Absent}, activated : Int \cup {Absent},
   program : STRING \cup {Absent}, category : Int \cup {Absent},
   run_type : Int \cup {Absent}]

\* struct testcase_base_info after memset; the id is the place in the table.
Blank == [name |-> NoProgram, binary |-> NoProgram, category |-> AUTO, run_type |-> WAIT]

\* display_name is there and not empty, and activated is 1.
Active(s) == s.display_name = TRUE /\ s.activated = 1

IsManual(s) == s.category \notin {Absent, AUTO}

Fetch(value, default) == IF value = Absent THEN default ELSE value

\* The entry e after the assignments the loop body makes for the section s.
Filled(e, s) ==
  [name     |-> s.name,
   binary   |-> Fetch(s.program, e.binary),
   category |-> Fetch(s.category, e.category),
   run_type |-> Fetch(s.run_type, e.run_type)]

\* A variant: the touch panel keeps its place in the table.
StepKeepsTp(acc, s) ==
  IF ~Active(s) THEN acc
  ELSE [info   |-> Append(acc.info, Filled(acc.slot, s)),
        slot   |-> Blank,
        auto   |-> acc.auto + (IF s.category = AUTO THEN 1 ELSE 0),
        manual |-> acc.manual + (IF IsManual(s) /\ s.name # tp THEN 1 ELSE 0)]

\* One round of the loop.  slot is info[j]: a touch panel that is not of category
\* auto is written to it, but then j is not incremented and the next section that
\* is active finds what was left there.
Step(acc, s) ==
  IF ~Active(s) THEN acc
  ELSE IF IsManual(s) /\ s.name = tp
  THEN [acc EXCEPT !.slot = [Filled(@, s) EXCEPT !.run_type = acc.slot.run_type]]
  ELSE [info   |-> Append(acc.info, Filled(acc.slot, s)),
        slot   |-> Blank,
        auto   |-> acc.auto + (IF s.category = AUTO THEN 1 ELSE 0),
        manual |-> acc.manual + (IF IsManual(s) THEN 1 ELSE 0)]

parse_testcase(sections) ==
  FoldLeft(Step, [info |-> <<>>, slot |-> Blank, auto |-> 0, manual |-> 0], sections)

-----------------------------------------------------------------------------
(* What the table should be, without the loop and its slots.               *)

\* A section that leaves nothing to the section before it: it has a category, and
\* the touch panel, which the view tests itself, has no program.
Complete(s) == Active(s) => s.category # Absent /\ (s.name = tp => s.program = Absent)

\* The places of the sections that get an entry.
Selected(sections) ==
  {k \in DOMAIN sections :
     LET s == sections[k] IN Active(s) /\ ~(IsManual(s) /\ s.name = tp)}

\* The entries of the table are those sections, in their order, and nothing else.
Lists(table, sections) ==
  \E place \in [DOMAIN table -> DOMAIN sections] :
    /\ \A i, j \in DOMAIN table : i < j => place[i] < place[j]
    /\ {place[i] : i \in DOMAIN table} = Selected(sections)
    /\ \A i \in DOMAIN table : table[i] = Filled(Blank, sections[place[i]])
=============================================================================
