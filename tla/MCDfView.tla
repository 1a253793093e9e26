----------------------------- MODULE MCDfView ------------------------------
(* Small boards, one for each of what meets on the screen: two threads on  *)
(* one surface, touches, a panel that is not tested, the wifi scan.        *)
EXTENDS DfView

NoLoad == [updates |-> 0, touches |-> 0, queue |-> 1, rounds |-> 0, found |-> 0]
SomeBoards ==
  {[lcd |-> TRUE, tp_activated |-> TRUE, cases |-> <<"auto", "manual", "manual">>,
    load |-> [NoLoad EXCEPT !.updates = 1, !.touches = 2, !.queue = 2]],
   [lcd |-> TRUE, tp_activated |-> TRUE, cases |-> <<"auto">>,
    load |-> [NoLoad EXCEPT !.touches = 6]],
   [lcd |-> TRUE, tp_activated |-> FALSE, cases |-> <<"manual">>,
    load |-> [NoLoad EXCEPT !.touches = 3]],
   [lcd |-> FALSE, tp_activated |-> TRUE, cases |-> <<"auto">>,
    load |-> [NoLoad EXCEPT !.queue = 2, !.rounds = 2, !.found = 3]]}
SomeRoom == [auto |-> 1, manual |-> 2]
Clear == {<<1, 1>>}
Switch == {<<2, 1>>}
=============================================================================
