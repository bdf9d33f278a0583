----------------------------- MODULE MCSession -----------------------------
(* Session as it is: the configurations give its constants model values.   *)
EXTENDS Session
=============================================================================
