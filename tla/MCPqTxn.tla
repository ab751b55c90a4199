------------------------------ MODULE MCPqTxn -------------------------------
(* Instances of PqTxn for TLC: the constants are plain numbers and flags.    *)
EXTENDS PqTxn
=============================================================================
