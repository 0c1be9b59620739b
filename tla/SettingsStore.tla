--------------------------- MODULE SettingsStore ---------------------------
(***************************************************************************)
(* How the charge limits and the port modes of a device get into the meta  *)
(* table of history.db, and back.                                          *)
(*                                                                         *)
(* The settings live twice.  A handler (ha_server.py) takes a snapshot of  *)
(* the manager's settings, changes it, has the executor write the table,   *)
(* and sets the manager when the write is done.  The end of a charge       *)
(* (ble_manager.py) spends a one-shot setting in the manager and leaves    *)
(* the write of a snapshot to the executor.  The threads of the executor   *)
(* take their turns at the table in any order.  A write or a read that     *)
(* fails is logged and nothing more: the caller goes on as if it had not.  *)
(***************************************************************************)
EXTENDS Naturals, Sequences, FiniteSets, SequencesExt

CONSTANTS
    Ports,       \* the charger's ports
    Requests,    \* HTTP requests that may be in flight together
    MaxRequests, \* bound on the requests of one behaviour
    MaxJobs,     \* bound on the writes the executor is behind
    MaxFaults    \* bound on the writes and reads of the table that fail

StoreConstants ==
    /\ IsFiniteSet(Ports)
    /\ {MaxRequests, MaxJobs, MaxFaults} \subseteq Nat

VARIABLES
    limit,     \* _charge_limits with _limit_modes: "none" or "once"
    fullOff,   \* full_off: "none" or "once"
    permanent, \* permanent_ports
    table,     \* the meta table: [limit, fullOff, permanent]
    unsaved,   \* what the table may hold otherwise after a failure (auxiliary)
    faults,    \* failures so far (auxiliary)
    jobs,      \* snapshots the executor has not written yet
    req,       \* the requests in flight, and what they will set
    requests,  \* requests so far (auxiliary)
    mixed      \* have two writers, or one and a start, overlapped (auxiliary)

settings == <<limit, fullOff, permanent>>
store == <<table, unsaved, faults>>
vars == <<settings, store, jobs, req, requests, mixed>>

(* A setting of mode "always" is one of mode "once" whose charge never ends. *)
Modes == {"none", "once"}
NoSetting == [p \in Ports |-> "none"]
Manager == [limit |-> limit, fullOff |-> fullOff, permanent |-> permanent]

Idle == [step |-> "idle", limit |-> NoSetting, fullOff |-> NoSetting,
         permanent |-> {}]
Quiet == jobs = <<>> /\ \A r \in Requests : req[r] = Idle

Init ==
    /\ permanent \in SUBSET Ports
    /\ limit \in [Ports -> Modes]
    /\ fullOff \in [Ports -> Modes]
    /\ \A p \in permanent : limit[p] = "none" /\ fullOff[p] = "none"
    /\ table = Manager
    /\ unsaved = {}
    /\ faults = 0
    /\ jobs = <<>>
    /\ req = [r \in Requests |-> Idle]
    /\ requests = 0
    /\ mixed = FALSE

-----------------------------------------------------------------------------
(* The meta table. *)

(* set_meta: a setting is written, or stays as it is in the table.         *)
SetMeta(key, value) ==
    \/ /\ table' = [table EXCEPT ![key] = value]
       /\ unsaved' = unsaved \ {key}
       /\ UNCHANGED faults
    \/ /\ faults < MaxFaults
       /\ unsaved' = unsaved \cup {key}
       /\ faults' = faults + 1
       /\ UNCHANGED table

(* get_meta: what is read when the reads of some settings fail.            *)
Missing == [limit |-> NoSetting, fullOff |-> NoSetting, permanent |-> {}]
GetMeta(lost) ==
    [key \in DOMAIN Missing |->
        IF key \in lost THEN Missing[key] ELSE table[key]]

-----------------------------------------------------------------------------
(* The manager spends one-shot settings. *)

Persist(op, what) ==
    /\ Len(jobs) < MaxJobs
    /\ jobs' = Append(jobs, [op |-> op, set |-> what])
    /\ mixed' = (mixed \/ ~Quiet)
    /\ UNCHANGED <<store, req, requests>>

(* _release_limit and _persist_limits_async: the snapshot has all ports.   *)
SpendLimit(p) ==
    /\ limit[p] = "once"
    /\ limit' = [limit EXCEPT ![p] = "none"]
    /\ Persist("limit", limit')
    /\ UNCHANGED <<fullOff, permanent>>

(* _enforce_full_off, confirmed, and _persist_full_off_async. *)
SpendFullOff(p) ==
    /\ fullOff[p] = "once"
    /\ fullOff' = [fullOff EXCEPT ![p] = "none"]
    /\ Persist("fullOff", fullOff')
    /\ UNCHANGED <<limit, permanent>>

WriteJob(i) ==
    /\ SetMeta(jobs[i].op, jobs[i].set)
    /\ jobs' = RemoveAt(jobs, i)
    /\ UNCHANGED <<settings, req, requests, mixed>>

-----------------------------------------------------------------------------
(* The handlers. *)

Begin(r, step, l, f, s) ==
    /\ req[r] = Idle
    /\ requests < MaxRequests
    /\ requests' = requests + 1
    /\ req' = [req EXCEPT ![r] = [step |-> step, limit |-> l, fullOff |-> f,
                                  permanent |-> s]]
    /\ mixed' = (mixed \/ ~Quiet)
    /\ UNCHANGED <<settings, store, jobs>>

GoOn(r, from, to) ==
    /\ req[r].step = from
    /\ req' = [req EXCEPT ![r].step = to]
    /\ UNCHANGED <<settings, jobs, requests, mixed>>

(* handle_charge_limits: a limit for a permanent port is refused, the      *)
(* change is merged into the limits of all ports.                          *)
LimitRequest(r, p, mode) ==
    /\ mode # "none" => p \notin permanent
    /\ Begin(r, "limits", [limit EXCEPT ![p] = mode], NoSetting, {})

WriteLimits(r) ==
    /\ GoOn(r, "limits", "limits_written")
    /\ SetMeta("limit", req[r].limit)

ApplyLimits(r) ==
    /\ req[r].step = "limits_written"
    /\ limit' = req[r].limit
    /\ req' = [req EXCEPT ![r] = Idle]
    /\ UNCHANGED <<fullOff, permanent, store, jobs, requests, mixed>>

(* handle_port_modes: full_off for a permanent port is refused, making a   *)
(* port permanent takes its full_off away.                                 *)
PermanentRequest(r, p) ==
    Begin(r, "modes", NoSetting, [fullOff EXCEPT ![p] = "none"],
          permanent \union {p})

OrdinaryRequest(r, p) ==
    Begin(r, "modes", NoSetting, fullOff, permanent \ {p})

FullOffRequest(r, p, mode) ==
    /\ mode # "none" => p \notin permanent
    /\ Begin(r, "modes", NoSetting, [fullOff EXCEPT ![p] = mode], permanent)

WritePermanent(r) ==
    /\ GoOn(r, "modes", "full_off")
    /\ SetMeta("permanent", req[r].permanent)

WriteFullOff(r) ==
    /\ GoOn(r, "full_off", "modes_written")
    /\ SetMeta("fullOff", req[r].fullOff)

(* Limits of ports that are permanent from now on are cleared first, with  *)
(* a new snapshot: in the table, then in the manager.                      *)
NeverStale(r) == {}  \* mutant
Stale(r) == {p \in req[r].permanent : limit[p] # "none"}

ClearStale(r) ==
    /\ req[r].step = "modes_written"
    /\ Stale(r) # {}
    /\ req' = [req EXCEPT
          ![r].step = "stale",
          ![r].limit = [p \in Ports |-> IF p \in Stale(r) THEN "none" ELSE limit[p]]]
    /\ UNCHANGED <<settings, store, jobs, requests, mixed>>

WriteStale(r) ==
    /\ GoOn(r, "stale", "stale_written")
    /\ SetMeta("limit", req[r].limit)

(* set_charge_limits if there was a stale limit, then set_permanent_ports  *)
(* and set_full_off, which keep permanent ports free of both.              *)
WithoutKey(setting, gone) == [p \in Ports \ gone |-> setting[p]]  \* mutant
WithoutNone(setting, gone) == setting  \* mutant
Without(setting, gone) ==
    [p \in Ports |-> IF p \in gone THEN "none" ELSE setting[p]]

ApplyModes(r) ==
    /\ \/ /\ req[r].step = "modes_written" /\ Stale(r) = {}
          /\ limit' = Without(limit, req[r].permanent)
       \/ /\ req[r].step = "stale_written"
          /\ limit' = Without(req[r].limit, req[r].permanent)
    /\ permanent' = req[r].permanent
    /\ fullOff' = Without(req[r].fullOff, req[r].permanent)
    /\ req' = [req EXCEPT ![r] = Idle]
    /\ UNCHANGED <<store, jobs, requests, mixed>>

-----------------------------------------------------------------------------
(* mount_device_hooks: a new manager loads the limits, then the permanent  *)
(* ports, then full_off.  The limits and full_off of ports that the table  *)
(* has as permanent only because a write failed are not loaded.            *)
Tainted == {key \in {"limit", "fullOff"} : unsaved \cap {key, "permanent"} # {}}

Load ==
    /\ \E lost \in SUBSET DOMAIN Missing :
          LET read == GetMeta(lost)
          IN  /\ faults' = faults + Cardinality(lost)
              /\ faults' <= MaxFaults
              /\ permanent' = read.permanent
              /\ limit' = Without(read.limit, read.permanent)
              /\ fullOff' = Without(read.fullOff, read.permanent)
              /\ unsaved' = lost \cup Tainted
    /\ mixed' = (mixed \/ ~Quiet)
    /\ UNCHANGED <<table, requests>>

(* _rebuild_device_resources: jobs and requests of the old manager go on.  *)
Rebuild == Load /\ UNCHANGED <<jobs, req>>

(* The process dies with its jobs and requests, and is started again.      *)
Restart ==
    /\ Load
    /\ jobs' = <<>>
    /\ req' = [r \in Requests |-> Idle]

Next ==
    \/ \E p \in Ports : SpendLimit(p) \/ SpendFullOff(p)
    \/ \E i \in DOMAIN jobs : WriteJob(i)
    \/ \E r \in Requests, p \in Ports :
          \/ PermanentRequest(r, p) \/ OrdinaryRequest(r, p)
          \/ \E m \in Modes : LimitRequest(r, p, m) \/ FullOffRequest(r, p, m)
    \/ \E r \in Requests :
          \/ WriteLimits(r) \/ ApplyLimits(r)
          \/ WritePermanent(r) \/ WriteFullOff(r)
          \/ ClearStale(r) \/ WriteStale(r) \/ ApplyModes(r)
    \/ Rebuild \/ Restart

Spec == Init /\ [][Next]_vars

-----------------------------------------------------------------------------
(* Every variable has the shape the manager, the table and the requests    *)
(* give it.                                                                *)
TypeOK ==
    /\ limit \in [Ports -> Modes]
    /\ fullOff \in [Ports -> Modes]
    /\ permanent \in SUBSET Ports
    /\ table \in [limit : [Ports -> Modes], fullOff : [Ports -> Modes],
                  permanent : SUBSET Ports]
    /\ unsaved \subseteq DOMAIN Missing /\ faults \in 0..MaxFaults
    /\ jobs \in Seq([op : {"limit", "fullOff"}, set : [Ports -> Modes]])
    /\ \A r \in Requests :
          /\ {req[r].limit, req[r].fullOff} \subseteq [Ports -> Modes]
          /\ req[r].permanent \in SUBSET Ports

(* full_off is never on for a permanent port, in whatever order handlers,  *)
(* spent settings and restarts come.  Neither is a limit, with the one     *)
(* exception the handlers leave: a limit accepted before the port became   *)
(* permanent and applied afterwards.                                       *)
PermanentIsExclusive ==
    \A p \in permanent : fullOff[p] = "none" /\ (limit[p] = "none" \/ mixed)

(* At rest the table holds what the manager does, so a restart changes     *)
(* nothing, unless two writers, or a writer and a restart, have overlapped:*)
(* but for the settings whose last write or read failed, and for limits    *)
(* and full_off that a restart dropped because permanent ports had not     *)
(* been written.                                                           *)
PersistedAtRest ==
    Quiet /\ ~mixed =>
        \A key \in DOMAIN Missing \ unsaved : table[key] = Manager[key]
=============================================================================
