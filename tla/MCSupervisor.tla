---------------------------- MODULE MCSupervisor ----------------------------
(* Instances of Supervisor for TLC. *)
EXTENDS Supervisor

SweepDeaths == {"sweepDies"}
Deaths == {"dispatcherDies", "sweepDies"}
Interruptions == {"dispatcherDies", "quota", "stubborn", "hidden", "sleep"}
=============================================================================
