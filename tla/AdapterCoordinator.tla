-------------------------- MODULE AdapterCoordinator --------------------------
(***************************************************************************)
(* The one Bluetooth adapter shared by all devices (adapter_coordinator.py)*)
(* and the part of each device's reconnect loop that uses it: the recovery *)
(* gate, the connect semaphore, the registry of live connections and the   *)
(* recovery ladder L1 (disconnect) -> L1.5 (remove) -> L2 (power cycle).   *)
(*                                                                         *)
(* asyncio wakes waiters first-in first-out.  The queues are modelled as   *)
(* sets of waiters; the order is what the strong fairness below stands for.*)
(***************************************************************************)
EXTENDS Naturals, FiniteSets

CONSTANTS
    Devices,      \* the devices of the registry, one manager each
    ConnectLimit, \* permits of connect_sem
    L1Before,     \* L1_FAILURES_BEFORE_REMOVE
    Env           \* when the user may disable a device

(* "disable": at any point of the loop but its _disconnect();              *)
(* "disable_in_drop": also while the loop runs _disconnect().              *)
EnvChoices == {"disable", "disable_in_drop"}

ASSUME AdapterAssumption ==
    /\ IsFiniteSet(Devices)
    /\ ConnectLimit \in Nat \ {0}
    /\ L1Before \in Nat
    /\ Env \subseteq EnvChoices

VARIABLES
    mpc,      \* where each manager's reconnect loop is
    after,    \* what follows its _disconnect() or recovery
    gate,     \* recovery_gate.is_set()
    slots,    \* permits left in connect_sem
    live,     \* live_connections
    l1, l15,  \* _l1_failures, _l15_failures, counted up to L1Before + 1
    backoff,  \* the devices listed in _l15_backoff
    phase,    \* progress of the power cycle under adapter_lock
    victims,  \* live links it still has to disconnect
    powered   \* is the adapter powered

counters == <<l1, l15, backoff>>
cycleVars == <<phase, victims, powered>>
vars == <<mpc, after, gate, slots, live, counters, cycleVars>>

N == Cardinality(Devices)

Init ==
    /\ mpc = [m \in Devices |-> "rest"]
    /\ after = [m \in Devices |-> "rest"]
    /\ gate = TRUE
    /\ slots = ConnectLimit
    /\ live = {}
    /\ l1 = [m \in Devices |-> 0]
    /\ l15 = [m \in Devices |-> 0]
    /\ backoff = {}
    /\ phase = "none"
    /\ victims = {}
    /\ powered = TRUE

At(place) == {m \in Devices : mpc[m] = place}
Holders == At("window") \cup At("settle")     \* holders of a connect slot
Connected == At("settle") \cup At("online")
(* Wake-ups that the event loop owes run in the next turn, before any delay,
   subprocess or GATT exchange can end: those steps happen in a Calm state. *)
HandOverDue ==
    \/ At("pass") # {}
    \/ slots > 0 /\ At("queue") # {}
    \/ At("cycle") = {} /\ At("wait") # {}
Calm == ~HandOverDue

Bump(f, m) == [f EXCEPT ![m] = IF @ > L1Before THEN @ ELSE @ + 1]
Zero(f, m) == [f EXCEPT ![m] = 0]

(* note_connected, restart_device, a power cycle: the ladder starts over. *)
ForgetL1Only(m) == l1' = Zero(l1, m) /\ UNCHANGED <<l15, backoff>>    \* mutant
ForgetFailures(m) ==
    /\ l1' = Zero(l1, m)
    /\ l15' = Zero(l15, m)
    /\ backoff' = backoff \ {m}

(* unregister_connection *)
UnregisterNothing(m) == UNCHANGED live    \* mutant
Unregister(m) == live' = live \ {m}

(* The exit of "async with connect_slot()", whatever the way out. *)
ReleaseIfSettled(m) ==    \* mutant
    slots' = IF mpc[m] = "settle" THEN slots + 1 ELSE slots
Release(m) == slots' = IF m \in Holders THEN slots + 1 ELSE slots

-----------------------------------------------------------------------------
(* _connect: gate, then semaphore, then scan/connect/authenticate *)

TakeUnlimited(m) ==    \* mutant
    mpc' = [mpc EXCEPT ![m] = "window"] /\ slots' = slots - 1
TakeSlotOrQueue(m) ==
    IF slots > 0 /\ At("queue") = {}
    THEN /\ mpc' = [mpc EXCEPT ![m] = "window"]
         /\ slots' = slots - 1
    ELSE /\ mpc' = [mpc EXCEPT ![m] = "queue"]
         /\ UNCHANGED slots

GateIgnored == TRUE    \* mutant
GateOpen == gate

Attempt(m) ==
    /\ Calm
    /\ mpc[m] = "rest"
    /\ IF GateOpen
       THEN TakeSlotOrQueue(m)
       ELSE mpc' = [mpc EXCEPT ![m] = "gate"] /\ UNCHANGED slots
    /\ UNCHANGED <<after, gate, live, counters, cycleVars>>

(* Event.wait() returns without looking at the gate again. *)
PassGate(m) ==
    /\ mpc[m] = "pass"
    /\ TakeSlotOrQueue(m)
    /\ UNCHANGED <<after, gate, live, counters, cycleVars>>

GetSlot(m) ==
    /\ mpc[m] = "queue"
    /\ slots > 0
    /\ mpc' = [mpc EXCEPT ![m] = "window"]
    /\ slots' = slots - 1
    /\ UNCHANGED <<after, gate, live, counters, cycleVars>>

(* Authenticated: note_connected registers the link and forgets failures. *)
NoteConnected(m) ==
    /\ Calm
    /\ mpc[m] = "window"
    /\ powered
    /\ mpc' = [mpc EXCEPT ![m] = "settle"]
    /\ live' = live \cup {m}
    /\ ForgetFailures(m)
    /\ UNCHANGED <<after, gate, slots, cycleVars>>

(* Initial settings read: the slot is released. *)
Settled(m) ==
    /\ Calm
    /\ mpc[m] = "settle"
    /\ mpc' = [mpc EXCEPT ![m] = "online"]
    /\ Release(m)
    /\ UNCHANGED <<after, gate, live, counters, cycleVars>>

(* Charger not found, or the scan failed: no recovery.  _disconnect() only
   finds something to unregister if an earlier one was cut short. *)
NotFound(m) ==
    /\ Calm
    /\ mpc[m] = "window"
    /\ mpc' = [mpc EXCEPT ![m] = "rest"]
    /\ Release(m)
    /\ Unregister(m)
    /\ UNCHANGED <<after, gate, counters, cycleVars>>

(* Connecting, authenticating, reading or running fails.  "stuck" is the
   third authentication failure, "rest" the adapter found powered off. *)
LinkFails(m) ==
    /\ Calm
    /\ mpc[m] \in {"window", "settle", "online"}
    /\ \E next \in {"recover"} \cup (IF powered THEN {} ELSE {"rest"})
                   \cup (IF mpc[m] = "window" THEN {"stuck"} ELSE {}) :
            after' = [after EXCEPT ![m] = next]
    /\ mpc' = [mpc EXCEPT ![m] = "drop"]
    /\ Release(m)
    /\ UNCHANGED <<gate, live, counters, cycleVars>>

(* _disconnect() done, in start()'s finally: the link is unregistered. *)
Dropped(m) ==
    /\ Calm
    /\ mpc[m] = "drop"
    /\ Unregister(m)
    /\ mpc' = [mpc EXCEPT ![m] = IF after[m] \in {"off", "rest"} THEN after[m] ELSE "l1"]
    /\ UNCHANGED <<after, gate, slots, counters, cycleVars>>

-----------------------------------------------------------------------------
(* recover_device *)

AfterRecovery(m) == IF after[m] = "stuck" THEN "stuck" ELSE "rest"

(* adapter_lock acquired: close the gate, list the links to disconnect. *)
BeginUngated(m, links) ==    \* mutant
    /\ mpc' = [mpc EXCEPT ![m] = "cycle"]
    /\ phase' = "drop"
    /\ victims' = links
    /\ UNCHANGED <<gate, powered>>
BeginCycle(m, links) ==
    /\ mpc' = [mpc EXCEPT ![m] = "cycle"]
    /\ gate' = FALSE
    /\ phase' = "drop"
    /\ victims' = links
    /\ UNCHANGED powered

RecoverAdapter(m, links) ==
    IF At("cycle") \cup At("wait") = {}
    THEN BeginCycle(m, links)
    ELSE /\ mpc' = [mpc EXCEPT ![m] = "wait"]
         /\ UNCHANGED <<gate, cycleVars>>

L1SpentEarly(m) == l1[m] + 1 >= L1Before    \* mutant
L1Spent(m) == l1[m] + 1 > L1Before

(* _can_reset_adapter *)
ResetAnyway == TRUE    \* mutant
ResetOnlyAlone == N <= 1    \* mutant
CanResetAdapter == N <= 1 \/ live = {}

(* L1 executed.  With one device the ladder is always the power cycle. *)
L1Done(m) ==
    /\ Calm
    /\ mpc[m] = "l1"
    /\ Unregister(m)
    /\ IF N <= 1
       THEN RecoverAdapter(m, live \ {m}) /\ UNCHANGED l1
       ELSE /\ l1' = Bump(l1, m)
            /\ mpc' = [mpc EXCEPT ![m] = IF L1Spent(m) THEN "l15" ELSE AfterRecovery(m)]
            /\ UNCHANGED <<gate, cycleVars>>
    /\ UNCHANGED <<after, slots, l15, backoff>>

(* L1.5 executed: the adapter is left alone while any link is registered. *)
L15Done(m) ==
    /\ Calm
    /\ mpc[m] = "l15"
    /\ l15' = Bump(l15, m)
    /\ IF CanResetAdapter
       THEN RecoverAdapter(m, live) /\ UNCHANGED backoff
       ELSE /\ backoff' = backoff \cup {m}
            /\ mpc' = [mpc EXCEPT ![m] = AfterRecovery(m)]
            /\ UNCHANGED <<gate, cycleVars>>
    /\ UNCHANGED <<after, slots, live, l1>>

(* Whoever waited at the gate was woken before the lock was handed over. *)
GetAdapterLock(m) ==
    /\ mpc[m] = "wait"
    /\ At("cycle") \cup At("pass") = {}
    /\ BeginCycle(m, live)
    /\ UNCHANGED <<after, slots, live, counters>>

CycleDrop(m, d) ==
    /\ Calm
    /\ mpc[m] = "cycle" /\ phase = "drop" /\ d \in victims
    /\ victims' = victims \ {d}
    /\ Unregister(d)
    /\ UNCHANGED <<mpc, after, gate, slots, counters, phase, powered>>

PowerOff(m) ==
    /\ Calm
    /\ mpc[m] = "cycle" /\ phase = "drop" /\ victims = {}
    /\ phase' = "off"
    /\ powered' = FALSE
    /\ UNCHANGED <<mpc, after, gate, slots, live, counters, victims>>

PowerOn(m) ==
    /\ Calm
    /\ mpc[m] = "cycle" /\ phase = "off"
    /\ phase' = "on"
    /\ powered' = TRUE
    /\ UNCHANGED <<mpc, after, gate, slots, live, counters, victims>>

(* The lock is released and the gate opened, on every way out: those who
   wait at the gate are woken. *)
GateLeftClosed(m, next) ==    \* mutant
    /\ phase' = "none"
    /\ victims' = {}
    /\ mpc' = [mpc EXCEPT ![m] = next]
    /\ UNCHANGED gate
OpenUnannounced(m, next) ==    \* mutant
    /\ gate' = TRUE
    /\ phase' = "none"
    /\ victims' = {}
    /\ mpc' = [mpc EXCEPT ![m] = next]
OpenGate(m, next) ==
    /\ gate' = TRUE
    /\ phase' = "none"
    /\ victims' = {}
    /\ mpc' = [d \in Devices |-> IF d = m THEN next
                                 ELSE IF mpc[d] = "gate" THEN "pass" ELSE mpc[d]]

CycleDone(m) ==
    /\ Calm
    /\ mpc[m] = "cycle" /\ phase = "on"
    /\ OpenGate(m, AfterRecovery(m))
    /\ IF N > 1 THEN ForgetFailures(m) ELSE UNCHANGED counters
    /\ UNCHANGED <<after, slots, live, powered>>

-----------------------------------------------------------------------------
(* restart_device and the supervisor *)

(* Authentication is stuck.  _stuck_devices is filled and emptied in this one
   step, since the rebuild hook only schedules a task; so with N > 1 the step
   always ends in an in-process rebuild. *)
RestartDevice(m) ==
    /\ Calm
    /\ mpc[m] = "stuck"
    /\ IF N <= 1
       THEN /\ mpc' = [mpc EXCEPT ![m] = "rest"]    \* a new process
            /\ live' = {}
            /\ UNCHANGED counters
       ELSE /\ mpc' = [mpc EXCEPT ![m] = "rebuild"]
            /\ ForgetFailures(m)
            /\ UNCHANGED live
    /\ UNCHANGED <<after, gate, slots, cycleVars>>

(* The supervisor starts the loop of the new manager, or of a device that
   was enabled again. *)
Started(m) ==
    /\ Calm
    /\ mpc[m] \in {"rebuild", "off"}
    /\ mpc' = [mpc EXCEPT ![m] = "rest"]
    /\ UNCHANGED <<after, gate, slots, live, counters, cycleVars>>

(* stop() cancels the loop at whatever it awaits. *)
Disable(m) ==
    /\ "disable" \in Env
    /\ \/ /\ mpc[m] \in {"rest", "gate", "pass", "queue", "l1", "l15", "wait", "stuck"}
          /\ mpc' = [mpc EXCEPT ![m] = "off"]
          /\ UNCHANGED <<after, gate, slots, phase, victims>>
       \/ /\ mpc[m] \in {"window", "settle", "online"}
          /\ mpc' = [mpc EXCEPT ![m] = "drop"]
          /\ after' = [after EXCEPT ![m] = "off"]
          /\ Release(m)
          /\ UNCHANGED <<gate, phase, victims>>
       \/ /\ mpc[m] = "cycle"
          /\ OpenGate(m, "off")
          /\ UNCHANGED <<after, slots>>
       \/ /\ mpc[m] = "drop"
          /\ "disable_in_drop" \in Env
          /\ mpc' = [mpc EXCEPT ![m] = "off"]
          /\ UNCHANGED <<after, gate, slots, phase, victims>>
    /\ UNCHANGED <<live, counters, powered>>

-----------------------------------------------------------------------------
WindowStep(m) == NoteConnected(m) \/ NotFound(m) \/ (mpc[m] = "window" /\ LinkFails(m))

RecoveryStep(m) ==
    L1Done(m) \/ L15Done(m) \/ (\E d \in victims : CycleDrop(m, d))
    \/ PowerOff(m) \/ PowerOn(m) \/ CycleDone(m)

Next ==
    \E m \in Devices :
        \/ PassGate(m) \/ GetSlot(m) \/ GetAdapterLock(m)
        \/ Attempt(m) \/ NoteConnected(m) \/ NotFound(m) \/ Settled(m)
        \/ LinkFails(m) \/ Dropped(m)
        \/ RecoveryStep(m) \/ RestartDevice(m) \/ Started(m)
        \/ Disable(m)

Spec == Init /\ [][Next]_vars

(* Delays end, subprocesses and GATT calls have timeouts, and the queues are
   first-in first-out.  No connection need ever succeed. *)
Fairness ==
    \A m \in Devices :
        /\ WF_vars(PassGate(m))
        /\ SF_vars(GetSlot(m))
        /\ SF_vars(GetAdapterLock(m))
        /\ SF_vars(Attempt(m) \/ WindowStep(m) \/ Settled(m) \/ Dropped(m))
        /\ SF_vars(RecoveryStep(m) \/ RestartDevice(m))

FairSpec == Spec /\ Fairness

-----------------------------------------------------------------------------
Places == {"rest", "gate", "pass", "queue", "window", "settle", "online", "drop",
           "l1", "l15", "wait", "cycle", "stuck", "rebuild", "off"}

TypeOK ==
    /\ mpc \in [Devices -> Places]
    /\ after \in [Devices -> {"rest", "recover", "stuck", "off"}]
    /\ gate \in BOOLEAN
    /\ slots \in Nat
    /\ live \in SUBSET Devices
    /\ l1 \in [Devices -> Nat]
    /\ l15 \in [Devices -> Nat]
    /\ backoff \in SUBSET Devices
    /\ phase \in {"none", "drop", "off", "on"}
    /\ victims \in SUBSET Devices
    /\ powered \in BOOLEAN

(* recover_adapter's finally: the gate is closed exactly while one manager
   is inside the power cycle, however that manager leaves it. *)
GateClosedOnlyInCycle ==
    /\ ~gate <=> At("cycle") # {}
    /\ \A m, d \in At("cycle") : m = d

(* async with connect_slot(): no way out of the connect window, cancellation
   included, loses or duplicates a permit. *)
SlotsConserved == slots + Cardinality(Holders) = ConnectLimit

(* What admits L2 is honest: a device listed as a live link has a manager
   that holds the link or is closing it. *)
LiveIsTrue == live \subseteq Connected \cup At("drop")

(* A connected device carries no failure counts and no backoff record from
   the time before: the ladder starts over at L1. *)
LiveIsClean == \A m \in live : l1[m] = 0 /\ l15[m] = 0 /\ m \notin backoff

(* No skipping of levels: with several devices, the power cycle is asked for
   only by a device that has been through L1 and L1.5 since it last connected. *)
LadderNoSkip ==
    N > 1 => \A m \in At("wait") \cup At("cycle") : l1[m] > L1Before /\ l15[m] > 0

(* "Every attempt goes through this gate first; during L2 it holds back all
   managers": nobody enters the connect window while the gate is closed. *)
NoEntryWhileClosed ==
    [][\A m \in Devices : mpc[m] # "window" /\ mpc'[m] = "window" => gate]_vars

(* L2 begins only when every device is offline (N > 1). *)
CycleStartsOffline == [][gate /\ ~gate' /\ N > 1 => Connected = {}]_vars

(* "Never power off while there are live connections" (N > 1). *)
PowerOffSparesLive == [][powered /\ ~powered' /\ N > 1 => Connected = {}]_vars

(* Power off, 3 s, power on, probe, and only then open the gate. *)
OpenGateIsPowered == gate => powered

(* The three together, which hold while nobody is disabled: nobody enters  *)
(* the connect window while the gate is closed, the adapter is switched    *)
(* off while nobody is connected, and it is on again when the gate opens.  *)
CycleIsSafe == []OpenGateIsPowered /\ NoEntryWhileClosed /\ CycleStartsOffline

(* The gate does not stay closed: that would stop the whole house. *)
GateReopens == ~gate ~> gate

(* Every manager that wants the adapter gets its turn. *)
EveryAttemptIsServed ==
    \A m \in Devices :
        /\ mpc[m] \in {"gate", "pass", "queue"} ~> mpc[m] \notin {"gate", "pass", "queue"}
        /\ mpc[m] = "wait" ~> mpc[m] # "wait"

(* A device that keeps failing while nobody is connected is not left in
   L1/L1.5 for ever: the power cycle comes round (an L3 rebuild, which starts
   the ladder over, apart). *)
LadderReachesAdapter ==
    \A m \in Devices :
        (<>[](live = {} /\ mpc[m] # "stuck") /\ []<>(mpc[m] = "l1"))
            => []<>(mpc[m] = "cycle")
=============================================================================
