------------------------------ MODULE MCLauncher ------------------------------
(* Launcher for TLC: a bundle, thresholds that are soon reached. *)
EXTENDS Launcher

InBundle == TRUE
TwoMisses == 2
OneRestart == 1
===============================================================================
