-------------------------- MODULE MCRestartTracker --------------------------
(* Instances of RestartTracker for TLC.                                     *)
EXTENDS RestartTracker
=============================================================================
