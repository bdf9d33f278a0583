------------------------------ MODULE MCCalls ------------------------------
(* Model values for checking Calls.                                        *)
EXTENDS Calls, TLC
=============================================================================
