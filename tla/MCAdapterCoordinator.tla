------------------------- MODULE MCAdapterCoordinator -------------------------
(* Model values for the runs of AdapterCoordinator. *)
EXTENDS AdapterCoordinator, TLC

CONSTANTS d1, d2, d3
MCTwo == {d1, d2}
MCThree == {d1, d2, d3}

(* The devices are interchangeable (for the runs without liveness). *)
DeviceSymmetry == Permutations(Devices)

EnvNone == {}
EnvDisableInDrop == {"disable", "disable_in_drop"}

-----------------------------------------------------------------------------
(* Nobody disabled: the gate reopens, whoever waits for the adapter gets   *)
(* its turn, and a device that keeps failing reaches the power cycle.      *)
AdapterGoesOn == GateReopens /\ EveryAttemptIsServed /\ LadderReachesAdapter
=============================================================================
