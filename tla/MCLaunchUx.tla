---------------------------- MODULE MCLaunchUx ----------------------------
(* Instances of the launch screen for TLC.                                 *)
EXTENDS LaunchUx
=============================================================================
