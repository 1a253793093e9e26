--------------------------- MODULE MCLinuxImage ----------------------------
(* Series of patches of each kind, in orders that matter.                  *)
EXTENDS LinuxImage

SomeSeries == {<<"good", "good">>, <<"rejected", "good">>, <<"broken", "good">>,
               <<"nodir", "missing">>, <<"good", "broken">>}
=============================================================================
