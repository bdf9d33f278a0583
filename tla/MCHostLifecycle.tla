-------------------------- MODULE MCHostLifecycle --------------------------
(* HostLifecycle as it is, with model values from the configuration.       *)
EXTENDS HostLifecycle
=============================================================================
