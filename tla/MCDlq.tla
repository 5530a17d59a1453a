-------------------------------- MODULE MCDlq --------------------------------
(* Instances of Dlq for TLC. *)
EXTENDS Dlq
TwoConfigs == {[mode |-> "random", maxRetries |-> 1], [mode |-> "first_n", maxRetries |-> 1]}
=============================================================================
