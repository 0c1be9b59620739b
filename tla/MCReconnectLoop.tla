--------------------------- MODULE MCReconnectLoop ---------------------------
(* ReconnectLoop with small limits. *)
EXTENDS ReconnectLoop

(* The loop neither clings to a dead link, nor gives up, nor outlives its  *)
(* stop.                                                                   *)
LoopGoesOn == DeadLinkEnds /\ KeepsTrying /\ StopEnds
==============================================================================
