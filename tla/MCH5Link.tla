------------------------------ MODULE MCH5Link ------------------------------
(* Small controllers: with and without the rom version command, with the   *)
(* speed in the config file or not, and patches that need padding, fit the *)
(* sequence numbers exactly, or do not exist.                              *)
EXTENDS H5Link

Attached == {[rom8723a |-> FALSE, speed |-> "config", chunks |-> 5],
             [rom8723a |-> TRUE, speed |-> "config", chunks |-> 4],
             [rom8723a |-> FALSE, speed |-> "line", chunks |-> 5],
             [rom8723a |-> TRUE, speed |-> "line", chunks |-> 1],
             [rom8723a |-> FALSE, speed |-> "config", chunks |-> 0]}
=============================================================================
