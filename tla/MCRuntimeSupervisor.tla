-------------------------- MODULE MCRuntimeSupervisor --------------------------
(***************************************************************************)
(* RuntimeSupervisor in two environments: commands that take _start_lock   *)
(* (HTTP), with the link asking for a rebuild in process (L3); and         *)
(* commands that do not (MQTT, Bemfa), without it.                         *)
(***************************************************************************)
EXTENDS RuntimeSupervisor

CONSTANTS c1, c2
VARIABLE locking \* do commands take the lock: chosen once and for all

MCOneCaller == {c1}
EnvLocking == {"l3", "fail"}

(* Without the lock two commands overlap, and one rebuild is bound enough. *)
U == INSTANCE RuntimeSupervisor
     WITH Callers <- {c1, c2}, Env <- {"fail", "unlocked"},
          NRebuilds <- 2, MaxRebuilds <- 1

LockingNext == locking /\ Next /\ UNCHANGED locking
UnlockedNext == ~locking /\ U!Next /\ UNCHANGED locking

MCSpec ==
    /\ locking \in BOOLEAN /\ (IF locking THEN Init ELSE U!Init)
    /\ [][LockingNext \/ UnlockedNext]_<<vars, locking>>
    /\ \A t \in Tasks :
          /\ WF_vars(LoopEnds(t))
          /\ WF_vars(locking /\ OnDone(t)) /\ WF_vars(~locking /\ U!OnDone(t))
    /\ \A r \in Rebuilds : WF_vars(locking /\ RebuildStep(r))
    /\ \A r \in U!Rebuilds : WF_vars(~locking /\ U!RebuildStep(r))
    /\ \A c \in Callers : WF_vars(locking /\ CallerStep(c))
    /\ \A c \in {c1, c2} : WF_vars(~locking /\ U!CallerStep(c))

-----------------------------------------------------------------------------
(* The variables have the types of their environment.                      *)
TypesOK == IF locking THEN TypeOK ELSE U!TypeOK
(* With the lock a device never has two BLE loops, and the one that runs   *)
(* is the one that stop() would reap.                                      *)
LoopIsHeldLocking == locking => OneLoop /\ LoopIsHeld
(* With the lock the last command sticks: no loop is left after a disable  *)
(* has returned, and an enable has its loop, or gave up and said so.  (In  *)
(* both environments NoRevival holds: none comes up for a disabled device.) *)
LastCommandSticks == locking => StopSticks /\ StartSticks
(* With the lock an enabled device whose task died is brought back.        *)
NoSilentDeathLocking ==
    (locking /\ want = "on" /\ Loops = {}) ~> (Loops # {} \/ gaveUp \/ want = "off")
(* In both environments stop() always returns.                             *)
StopsReturn ==
    \A c \in {c1, c2} :
        (c \in DOMAIN spc /\ spc[c] # "idle") ~> (c \in DOMAIN spc /\ spc[c] = "idle")
(* What crashed comes back or is reported, and who stops it is not kept.   *)
SupervisorGoesOn == NoSilentDeathLocking /\ StopsReturn
=============================================================================
