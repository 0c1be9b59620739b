----------------------------- MODULE PortLimits -----------------------------
(***************************************************************************)
(* Charge limits and "off when full" (ble_manager.py): how the manager     *)
(* decides that a port is to be switched off, and how it goes on until the *)
(* port is off.                                                            *)
(*                                                                         *)
(* The decision is taken on the event loop and queued; the command loop    *)
(* runs it while a link is up.  The energy of a charge is either below its *)
(* limit or has reached it.  The retry windows (15 s each) may have passed *)
(* at any time.  SettingsStore has how the settings get into the database; *)
(* here a handler's request takes effect at once.                          *)
(***************************************************************************)
EXTENDS Integers, Sequences, FiniteSets

CONSTANTS
    Ports,        \* the charger's ports
    MaxAttempts,  \* FULL_OFF_MAX_ATTEMPTS
    QueueSize     \* CMD_QUEUE_MAXSIZE

LimitsConstants ==
    /\ IsFiniteSet(Ports)
    /\ {MaxAttempts, QueueSize} \subseteq Nat

VARIABLES
    link,      \* is the charger connected and authenticated
    port,      \* "off", or on and "empty" or "attached": the last reading
    charge,    \* "none", "below" or "reached" its limit
    limit,     \* _charge_limits with _limit_modes: "none", "once", "always"
    limitFired,\* _limit_fired
    fullOff,   \* full_off: "none", "once" or "always"
    pending,   \* _full_off_pending
    attempts,  \* _full_off_attempts
    armed,     \* _no_load_armed
    permanent, \* permanent_ports
    queue      \* cmd_queue: the port switches among its commands

charging == <<charge, limitFired, pending, attempts, armed>>
settings == <<limit, fullOff, permanent>>
vars == <<link, port, charging, settings, queue>>

Modes == {"none", "once", "always"}

Init ==
    /\ link = TRUE
    /\ port = [p \in Ports |-> "empty"]
    /\ charge = [p \in Ports |-> "none"]
    /\ permanent \in SUBSET Ports
    /\ limit \in [Ports -> Modes]
    /\ fullOff \in [Ports -> Modes]
    /\ \A p \in permanent : limit[p] = "none" /\ fullOff[p] = "none"
    /\ limitFired = [p \in Ports |-> FALSE]
    /\ pending = [p \in Ports |-> FALSE]
    /\ attempts = [p \in Ports |-> 0]
    /\ armed = [p \in Ports |-> FALSE]
    /\ queue = <<>>

-----------------------------------------------------------------------------
(* The manager: charges begin, reach their limit and end. *)

Command(p, to, auto) == [port |-> p, on |-> to, auto |-> auto]

Room == Len(queue) < QueueSize

(* _enqueue_port_off: put_nowait, and a full queue is only logged. *)
Enqueued(p) == IF Room THEN Append(queue, Command(p, FALSE, TRUE)) ELSE queue

(* _start_session: nothing of the previous charge's switching-off is left. *)
StartCharge(p) ==
    /\ link /\ port[p] # "off"
    /\ charge[p] = "none"
    /\ charge' = [charge EXCEPT ![p] = "below"]
    /\ port' = [port EXCEPT ![p] = "attached"]
    /\ limitFired' = [limitFired EXCEPT ![p] = FALSE]
    /\ pending' = [pending EXCEPT ![p] = FALSE]
    /\ attempts' = [attempts EXCEPT ![p] = 0]
    /\ armed' = [armed EXCEPT ![p] = FALSE]
    /\ UNCHANGED <<link, settings, queue>>

ReachLimit(p) ==
    /\ link
    /\ charge[p] = "below"
    /\ charge' = [charge EXCEPT ![p] = "reached"]
    /\ UNCHANGED <<link, port, limitFired, pending, attempts, armed>>
    /\ UNCHANGED <<settings, queue>>

(* _enforce_charge_limit, for each pushed frame and from the port timer:   *)
(* at once, and again whenever the retry window has passed.                *)
Fire(p) ==
    /\ link
    /\ p \notin permanent
    /\ limit[p] # "none"
    /\ charge[p] = "reached"
    /\ limitFired' = [limitFired EXCEPT ![p] = Room]
    /\ queue' = Enqueued(p)
    /\ UNCHANGED <<link, port, charge, pending, attempts, armed, settings>>

NeverAgain(p) == FALSE  \* mutant
Again(p) == limitFired[p]

EnforceChargeLimit(p) == (~limitFired[p] \/ Again(p)) /\ Fire(p)

(* _release_limit: only the real end of a charge spends a one-shot limit.  *)
SpentNever(p) == FALSE  \* mutant
Spent(p) == limit[p] = "once"

ReleaseLimitOnly(p) ==  \* mutant
    limit' = [limit EXCEPT ![p] = IF Spent(p) THEN "none" ELSE @]
    /\ UNCHANGED limitFired

ReleaseLimit(p) ==
    /\ limitFired' = [limitFired EXCEPT ![p] = FALSE]
    /\ limit' = [limit EXCEPT ![p] = IF Spent(p) THEN "none" ELSE @]

(* _close_session for a charge that really ended.  A charge that converged *)
(* arms the automatic switch-off, unless it was too small.                 *)
Arms(p, reason) == reason = "low_power" /\ fullOff[p] # "none"

CloseSession(p, reason) ==
    /\ link
    /\ charge[p] # "none"
    /\ charge' = [charge EXCEPT ![p] = "none"]
    /\ port' = [port EXCEPT ![p] = IF reason = "unplug" THEN "empty" ELSE @]
    /\ ReleaseLimit(p)
    /\ \/ UNCHANGED <<queue, pending, attempts>>
       \/ /\ Arms(p, reason)
          /\ pending' = [pending EXCEPT ![p] = TRUE]
          /\ attempts' = [attempts EXCEPT ![p] = 0]
          /\ queue' = Enqueued(p)
    /\ armed' = [armed EXCEPT ![p] = @ /\ reason = "no_load"]
    /\ UNCHANGED <<link, fullOff, permanent>>

(* _manage_session, branch D: the port has long drawn nothing.             *)
IdleLongEnough(p) ==
    /\ link
    /\ charge[p] = "none"
    /\ port[p] = "attached"
    /\ fullOff[p] # "none"
    /\ ~pending[p] /\ ~armed[p]
    /\ armed' = [armed EXCEPT ![p] = TRUE]
    /\ pending' = [pending EXCEPT ![p] = TRUE]
    /\ attempts' = [attempts EXCEPT ![p] = 0]
    /\ queue' = Enqueued(p)
    /\ UNCHANGED <<link, port, charge, limitFired, settings>>

(* _enforce_full_off, every second: the port reads inactive, or the switch *)
(* is tried again, or given up.                                            *)
RetriesForever(p) == TRUE  \* mutant
Uncounted(p) == attempts[p]  \* mutant
Counted(p) == attempts[p] + 1
RetriesLeft(p) == attempts[p] < MaxAttempts

ConfirmFullOff(p) ==
    /\ link /\ pending[p] /\ port[p] # "attached"
    /\ pending' = [pending EXCEPT ![p] = FALSE]
    /\ fullOff' = [fullOff EXCEPT ![p] = IF @ = "once" THEN "none" ELSE @]
    /\ UNCHANGED <<link, port, charge, limitFired, attempts, armed>>
    /\ UNCHANGED <<limit, permanent, queue>>

RetryFullOff(p) ==
    /\ link /\ pending[p] /\ port[p] = "attached"
    /\ IF RetriesLeft(p)
       THEN /\ attempts' = [attempts EXCEPT ![p] = Counted(p)]
            /\ queue' = Enqueued(p)
            /\ UNCHANGED pending
       ELSE /\ pending' = [pending EXCEPT ![p] = FALSE]
            /\ UNCHANGED <<attempts, queue>>
    /\ UNCHANGED <<link, port, charge, limitFired, armed, settings>>

(* The readings of a port that is on: active while a device holds its      *)
(* voltage.                                                                *)
Readback(p) ==
    /\ link
    /\ charge[p] = "none"
    /\ port[p] # "off"
    /\ \E reads \in {"empty", "attached"} : port' = [port EXCEPT ![p] = reads]
    /\ UNCHANGED <<link, charging, settings, queue>>

(* _manage_session: more than 2 W without a charge.                        *)
Busy(p) ==
    /\ link /\ port[p] = "attached"
    /\ charge[p] = "none"
    /\ armed' = [armed EXCEPT ![p] = FALSE]
    /\ UNCHANGED <<link, port, charge, limitFired, pending, attempts>>
    /\ UNCHANGED <<settings, queue>>

-----------------------------------------------------------------------------
(* The settings, as the handlers set them. *)

(* handle_charge_limits refuses a limit for a permanent port.              *)
AcceptsAny(p, mode) == TRUE  \* mutant
Accepts(p, mode) == mode # "none" => p \notin permanent

SetLimit(p, mode) ==
    /\ mode # limit[p]
    /\ Accepts(p, mode)
    /\ limit' = [limit EXCEPT ![p] = mode]
    /\ UNCHANGED <<link, port, charging, fullOff, permanent, queue>>

(* set_permanent_ports and set_full_off: a port that becomes permanent or  *)
(* loses full_off also loses the switching-off under way, but not the      *)
(* command already queued.                                                 *)
StaysPending(p) == pending[p]  \* mutant
StillPending(p) == pending[p] /\ fullOff'[p] # "none"

ApplyModes ==
    /\ limit' = [p \in Ports |-> IF p \in permanent' THEN "none" ELSE limit[p]]
    /\ limitFired' = [p \in Ports |-> limitFired[p] /\ p \notin permanent']
    /\ pending' = [p \in Ports |-> StillPending(p)]
    /\ attempts' = [p \in Ports |->
                       IF fullOff'[p] = "none" THEN 0 ELSE attempts[p]]
    /\ UNCHANGED <<link, port, charge, armed, queue>>

SetPermanent(p) ==
    /\ p \notin permanent
    /\ permanent' = permanent \union {p}
    /\ fullOff' = [fullOff EXCEPT ![p] = "none"]
    /\ ApplyModes

SetOrdinary(p) ==
    /\ p \in permanent
    /\ permanent' = permanent \ {p}
    /\ UNCHANGED fullOff
    /\ ApplyModes

(* handle_port_modes refuses full_off for a permanent port.                *)
SetFullOff(p, mode) ==
    /\ mode # fullOff[p]
    /\ p \notin permanent
    /\ fullOff' = [fullOff EXCEPT ![p] = mode]
    /\ UNCHANGED permanent
    /\ ApplyModes

-----------------------------------------------------------------------------
(* The command loop and the link. *)

(* handle_port queues the user's switch behind the automatic ones.         *)
UserSwitch(p, to) ==
    /\ link /\ Room
    /\ ~\E i \in DOMAIN queue : ~queue[i].auto
    /\ queue' = Append(queue, Command(p, to, FALSE))
    /\ UNCHANGED <<link, port, charging, settings>>

(* _handle_port_command when the charger accepts: a port switched off ends *)
(* its charge and reads inactive.  One that is as it should be is left.    *)
Switch(p, to) ==
    /\ port' = [port EXCEPT ![p] = IF to THEN "empty" ELSE "off"]
    /\ IF charge[p] # "none"
       THEN charge' = [charge EXCEPT ![p] = "none"] /\ ReleaseLimit(p)
       ELSE UNCHANGED <<charge, limit, limitFired>>

RunCommand ==
    /\ link /\ queue # <<>>
    /\ queue' = Tail(queue)
    /\ LET p == Head(queue).port
           to == Head(queue).on
       IN IF to = (port[p] # "off")
          THEN UNCHANGED <<port, charge, limit, limitFired>>
          ELSE Switch(p, to)
    /\ UNCHANGED <<link, pending, attempts, armed, fullOff, permanent>>

(* No answer, or an error answer: the command is gone. *)
CommandFails ==
    /\ link /\ queue # <<>>
    /\ queue' = Tail(queue)
    /\ UNCHANGED <<link, port, charging, settings>>

(* _disconnect: the charges end, which spends nothing.  The commands stay  *)
(* queued and the switching-off stays pending.                             *)
LinkLost ==
    /\ link
    /\ link' = FALSE
    /\ charge' = [p \in Ports |-> "none"]
    /\ limitFired' = [p \in Ports |-> FALSE]
    /\ UNCHANGED <<port, pending, attempts, armed, settings, queue>>

LinkUp ==
    /\ ~link
    /\ link' = TRUE
    /\ UNCHANGED <<port, charging, settings, queue>>

(* _rebuild_device_resources: the queue is drained and a new manager takes *)
(* the settings over.                                                      *)
Rebuild ==
    /\ ~link
    /\ pending' = [p \in Ports |-> FALSE]
    /\ attempts' = [p \in Ports |-> 0]
    /\ armed' = [p \in Ports |-> FALSE]
    /\ queue' = <<>>
    /\ UNCHANGED <<link, port, charge, limitFired, settings>>

-----------------------------------------------------------------------------
Next ==
    \/ \E p \in Ports :
          \/ StartCharge(p) \/ ReachLimit(p) \/ EnforceChargeLimit(p)
          \/ \E reason \in {"unplug", "no_load", "low_power"} :
                CloseSession(p, reason)
          \/ IdleLongEnough(p) \/ ConfirmFullOff(p) \/ RetryFullOff(p)
          \/ Readback(p) \/ Busy(p)
          \/ SetPermanent(p) \/ SetOrdinary(p)
          \/ \E m \in Modes : SetLimit(p, m) \/ SetFullOff(p, m)
          \/ \E to \in BOOLEAN : UserSwitch(p, to)
    \/ RunCommand \/ CommandFails
    \/ LinkLost \/ LinkUp \/ Rebuild

Spec == Init /\ [][Next]_vars

(* The port timer and the command loop run while the link is up; a charger *)
(* that is asked again and again does switch the port off.                 *)
Fairness ==
    /\ WF_vars(RunCommand \/ CommandFails)
    /\ \A p \in Ports :
          /\ WF_vars(ConfirmFullOff(p) \/ RetryFullOff(p))
          /\ SF_vars(Room /\ EnforceChargeLimit(p))
          /\ SF_vars(RunCommand /\ Head(queue) = Command(p, FALSE, TRUE))

FairSpec == Spec /\ Fairness

-----------------------------------------------------------------------------
(* Every variable has the shape the manager gives it, and the queue and    *)
(* the count of retries stay within their limits.                          *)
TypeOK ==
    /\ link \in BOOLEAN
    /\ port \in [Ports -> {"off", "empty", "attached"}]
    /\ charge \in [Ports -> {"none", "below", "reached"}]
    /\ limitFired \in [Ports -> BOOLEAN]
    /\ pending \in [Ports -> BOOLEAN]
    /\ armed \in [Ports -> BOOLEAN]
    /\ limit \in [Ports -> Modes]
    /\ fullOff \in [Ports -> Modes]
    /\ permanent \in SUBSET Ports
    /\ attempts \in [Ports -> 0..MaxAttempts]
    /\ queue \in Seq([port : Ports, on : BOOLEAN, auto : BOOLEAN])
    /\ Len(queue) <= QueueSize

(* A switching-off under way belongs to a port that has stopped charging   *)
(* and still wants it: once the port charges again, becomes permanent, or  *)
(* its full_off is taken away or spent, nothing is retried (_start_session,*)
(* set_permanent_ports, set_full_off, _enforce_full_off).                  *)
SwitchOffIsWanted ==
    \A p \in Ports : pending[p] => charge[p] = "none" /\ fullOff[p] # "none"

(* The mark "limit fired" belongs to the charge that reached the limit: no *)
(* way of ending a charge, and no way of losing the limit by becoming      *)
(* permanent, leaves it for the next charge.                               *)
FiredIsThisCharge ==
    \A p \in Ports :
        limitFired[p] => charge[p] = "reached" /\ p \notin permanent

(* A permanent port has neither a limit nor full_off, whichever handler    *)
(* ran last.                                                               *)
PermanentIsExclusive ==
    \A p \in permanent : limit[p] = "none" /\ fullOff[p] = "none"

(* A charge that ends by itself or by a switch spends its one-shot limit;  *)
(* a lost link, which ends all charges, changes no setting.                *)
OnlyRealEndsSpend ==
    [][\A p \in Ports :
          charge[p] # "none" /\ charge'[p] = "none" =>
             IF link' THEN limit[p] = "once" => limit'[p] = "none"
             ELSE UNCHANGED settings]_vars

(* _enforce_full_off comes to an end while the link lasts, whatever the    *)
(* charger does: confirmed, or given up after the last retry.              *)
FullOffResolves ==
    \A p \in Ports : pending[p] ~> (~pending[p] \/ ~link)

(* A charge that has reached its limit is ended, if neither the link nor   *)
(* the limit is lost first: retries outlast commands that fail.            *)
Due(p) ==
    link /\ charge[p] = "reached" /\ limit[p] # "none" /\ p \notin permanent

LimitIsEnforced == \A p \in Ports : Due(p) ~> ~Due(p)
=============================================================================
