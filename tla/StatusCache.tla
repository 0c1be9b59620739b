----------------------------- MODULE StatusCache -----------------------------
(***************************************************************************)
(* The cached bodies of /api/status (handle_status in ha_server.py), one   *)
(* per device.                                                             *)
(*                                                                         *)
(* A body is built from a copy of the state, which waits for the state's   *)
(* lock, is encoded in a thread and stored then.  The state changes        *)
(* without it: some changes are followed by an invalidation at once, some  *)
(* after more reads from the device, some by none of their own             *)
(* (ble_manager.py:2453, ha_server.py:1690).                               *)
(***************************************************************************)
EXTENDS Integers, FiniteSets

CONSTANTS
    Devices,    \* the devices of the registry
    MaxVersion, \* bound on the changes of a device's state
    Requests    \* requests for /api/status

CacheConstants ==
    /\ IsFiniteSet(Devices) /\ IsFiniteSet(Requests)
    /\ MaxVersion \in Nat \ {0}

VARIABLES
    version,   \* each device's state
    announced, \* its version when the body was last invalidated (auxiliary)
    body,      \* _status_cache: a version, or None
    copied,    \* what each request encodes: a version, Locked or None
    late,      \* requests whose copy an invalidation came after (auxiliary)
    missed     \* devices with the body of such a request (auxiliary)

vars == <<version, announced, body, copied, late, missed>>

None == 0
Locked == -1  \* no copy yet: the state's lock is awaited
First == CHOOSE d \in Devices : TRUE  \* the primary device
NoCopy == [of |-> First, ver |-> None]

Init ==
    /\ version = [d \in Devices |-> 1]
    /\ announced = [d \in Devices |-> 1]
    /\ body = [d \in Devices |-> None]
    /\ copied = [r \in Requests |-> NoCopy]
    /\ late = {}
    /\ missed = {}

-----------------------------------------------------------------------------
(* update_port, update_settings, set_connection, ...: nothing but the state.*)
Change(d) ==
    /\ version[d] < MaxVersion
    /\ version' = [version EXCEPT ![d] = @ + 1]
    /\ UNCHANGED <<announced, body, copied, late, missed>>

(* invalidate_status_cache, after one change or several, or after none.    *)
OnlyFirst(d) == [body EXCEPT ![First] = None]  \* mutant
Without(d) == [body EXCEPT ![d] = None]

Invalidate(d) ==
    /\ body' = Without(d)
    /\ announced' = [announced EXCEPT ![d] = version[d]]
    /\ late' = late \cup {r \in Requests : copied[r].ver > None /\ copied[r].of = d}
    /\ missed' = missed \ {d}
    /\ UNCHANGED <<version, copied>>

(* handle_status finds no body, ...                                        *)
Miss(r, d) ==
    /\ copied[r] = NoCopy /\ body[d] = None
    /\ copied' = [copied EXCEPT ![r] = [of |-> d, ver |-> Locked]]
    /\ UNCHANGED <<version, announced, body, late, missed>>

(* ... copies the state, which may be locked for a while before, ...       *)
Copy(r) ==
    /\ copied[r].ver = Locked
    /\ copied' = [copied EXCEPT ![r] = [of |-> copied[r].of, ver |-> version[copied[r].of]]]
    /\ UNCHANGED <<version, announced, body, late, missed>>

(* ... and stores it when a thread has encoded it, come what may.          *)
Store(r) ==
    /\ copied[r].ver > None
    /\ body' = [body EXCEPT ![copied[r].of] = copied[r].ver]
    /\ missed' = IF r \in late THEN missed \cup {copied[r].of}
                 ELSE missed \ {copied[r].of}
    /\ copied' = [copied EXCEPT ![r] = NoCopy]
    /\ late' = late \ {r}
    /\ UNCHANGED <<version, announced>>

Next ==
    \/ \E d \in Devices : Change(d) \/ Invalidate(d)
    \/ \E r \in Requests : Copy(r) \/ Store(r) \/ \E d \in Devices : Miss(r, d)

Spec == Init /\ [][Next]_vars

-----------------------------------------------------------------------------
(* A body, and what becomes one, is a version that the state has had.      *)
TypeOK ==
    /\ version \in [Devices -> 1..MaxVersion]
    /\ \A d \in Devices : announced[d] \in 1..version[d] /\ body[d] \in 0..version[d]
    /\ \A r \in Requests :
          \/ copied[r].ver = None
          \/ /\ copied[r].of \in Devices
             /\ copied[r].ver = Locked \/ copied[r].ver \in 1..version[copied[r].of]
    /\ late \subseteq Requests /\ missed \subseteq Devices

(* Requests are answered with the state as it was at the last invalidation *)
(* of this device's body or is since, whatever the changes, the other      *)
(* devices and requests do; the one exception is a body that was stored    *)
(* over an invalidation which came while it was encoded.                   *)
BodyIsCurrent ==
    \A d \in Devices \ missed : body[d] = None \/ body[d] >= announced[d]
=============================================================================
