------------------------------ MODULE MCUpdate ------------------------------
(* Update for TLC: what may go wrong in each run.                          *)
EXTENDS Update

HelperTroubles == {"killed", "raised"}
LaunchTroubles == {"launch"}
=============================================================================
