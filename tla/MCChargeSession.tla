-------------------------- MODULE MCChargeSession --------------------------
(* Model values for the runs of ChargeSession. *)
EXTENDS ChargeSession

CONSTANTS p1, p2
MCOnePort == {p1}
MCTwoPorts == {p1, p2}
=============================================================================
