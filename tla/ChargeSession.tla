---------------------------- MODULE ChargeSession ----------------------------
(***************************************************************************)
(* The life of a charge session (ble_manager.py) and of its row in the     *)
(* history database (history.py).                                          *)
(*                                                                         *)
(* The event loop opens and closes sessions synchronously; every database  *)
(* write is a job for the default executor.  The jobs of its threads meet  *)
(* at history._db_lock in any order.  A row's id comes back in a callback, *)
(* which may find the session ended or replaced by another.  While the     *)
(* recording switch is off a session carries a negative stand-in id.       *)
(*                                                                         *)
(* _close_active_sessions is the exception: it writes on the event loop.   *)
(***************************************************************************)
EXTENDS Integers, Sequences, FiniteSets, SequencesExt

CONSTANTS
    Ports,       \* the charger's ports
    MaxCharges,  \* bound on the charges of one behaviour
    MaxRows,     \* bound on the rows ever inserted
    MaxJobs,     \* sampling points are written only below this many jobs
    MaxFailures  \* bound on the failing inserts

ASSUME SessionAssumption ==
    /\ IsFiniteSet(Ports)
    /\ {MaxCharges, MaxRows, MaxJobs, MaxFailures} \subseteq Nat

VARIABLES
    record,    \* record_sessions, kept in the database's meta table
    charging,  \* _energy_states[p].is_charging
    enough,    \* is session_wh at least 0.05 Wh
    active,    \* _active_sessions: a row id, a stand-in (< 0) or None
    standIns,  \* _fake_sid_counter, negated
    jobs,      \* executor jobs whose database write has not happened
    answers,   \* row ids on their way back to the event loop
    rows,      \* charge_sessions, by row id; has the row points
    abandoned, \* rows whose session ended without a write (auxiliary)
    unwritten, \* open rows whose end or deletion failed (auxiliary)
    charge,    \* number of the port's latest charge (auxiliary)
    charges,   \* charges so far (auxiliary)
    events,    \* charges whose completion was published (auxiliary)
    failures   \* failed inserts (auxiliary)

sessions == <<charging, enough, active, standIns>>
database == <<jobs, answers, rows>>
ghosts == <<charge, charges, events>>
exceptions == <<abandoned, unwritten>>
vars == <<record, sessions, database, exceptions, ghosts, failures>>

None == 0
RowIds == DOMAIN rows
IsAnyId(sid) == sid # None  \* mutant
IsRow(sid) == sid > 0

Job(op, p, arg) == [op |-> op, port |-> p, arg |-> arg]
StartJobs == {i \in DOMAIN jobs : jobs[i].op = "start"}
Room(n) == Len(rows) + Cardinality(StartJobs) + n <= MaxRows
OpenRows == {r \in RowIds : rows[r].state = "open"}

Init ==
    /\ record \in BOOLEAN
    /\ charging = [p \in Ports |-> FALSE]
    /\ enough = [p \in Ports |-> FALSE]
    /\ active = [p \in Ports |-> None]
    /\ standIns = 0
    /\ jobs = <<>>
    /\ answers = {}
    /\ rows = <<>>
    /\ abandoned = {}
    /\ unwritten = {}
    /\ charge = [p \in Ports |-> 0]
    /\ charges = 0
    /\ events = <<>>
    /\ failures = 0

-----------------------------------------------------------------------------
(* The event loop. *)

(* _start_session, from _manage_session once the start gate lets it.  The  *)
(* samples of the gate's waiting time may already make enough energy.      *)
StartCharge(p) ==
    /\ ~charging[p]
    /\ charges < MaxCharges
    /\ Room(1)
    /\ charging' = [charging EXCEPT ![p] = TRUE]
    /\ \E e \in BOOLEAN : enough' = [enough EXCEPT ![p] = e]
    /\ IF record
       THEN /\ jobs' = Append(jobs, Job("start", p, None))
            /\ UNCHANGED <<active, standIns>>
       ELSE /\ standIns' = standIns + 1
            /\ active' = [active EXCEPT ![p] = -standIns']
            /\ UNCHANGED jobs
    /\ charges' = charges + 1
    /\ charge' = [charge EXCEPT ![p] = charges']
    /\ UNCHANGED <<record, answers, rows, exceptions, events, failures>>

(* _record_charge_point: only a recorded session gets points. *)
RecordChargePoint(p) ==
    IF IsRow(active[p]) /\ record
    THEN /\ Len(jobs) < MaxJobs
         /\ jobs' = Append(jobs, Job("point", p, active[p]))
    ELSE UNCHANGED jobs

(* A sample while a session runs: energy adds up, a point is recorded. *)
Sample(p) ==
    /\ charging[p]
    /\ enough' = [enough EXCEPT ![p] = TRUE]
    /\ RecordChargePoint(p)
    /\ UNCHANGED <<record, charging, active, standIns, answers, rows,
                   exceptions, ghosts, failures>>

(* _active_sessions.pop(p). *)
UnregisterNothing(p) == active  \* mutant
Unregister(p) == [active EXCEPT ![p] = None]

(* _close_session: the port reads empty, draws next to nothing, was        *)
(* switched off, or was found idle by a readback.                          *)
Close(p) ==
    /\ charging[p] \/ active[p] # None
    /\ active' = Unregister(p)
    /\ charging' = [charging EXCEPT ![p] = FALSE]
    /\ events' = IF enough[p] THEN Append(events, charge[p]) ELSE events
    /\ IF IsRow(active[p]) /\ record
       THEN /\ jobs' = Append(jobs,
                          Job(IF enough[p] THEN "end" ELSE "delete", p, active[p]))
            /\ UNCHANGED abandoned
       ELSE /\ abandoned' = abandoned \cup {r \in {active[p]} : IsRow(r)}
            /\ UNCHANGED jobs
    /\ UNCHANGED <<record, enough, standIns, answers, rows, unwritten, charge,
                   charges, failures>>

(* _close_active_sessions, at request_stop, a lost link or a rebuild: rows *)
(* with enough energy are ended at once, which may fail; no row is deleted.*)
CloseAll ==
    LET closing == {p \in Ports : charging[p]}
        kept == {p \in closing : IsRow(active[p]) /\ enough[p] /\ record}
    IN  /\ closing # {}
        /\ active' = [p \in Ports |-> IF p \in closing THEN None ELSE active[p]]
        /\ charging' = [p \in Ports |-> FALSE]
        /\ \E failing \in SUBSET kept :
              /\ rows' = [r \in RowIds |->
                             IF \E p \in kept \ failing : active[p] = r
                             THEN [rows[r] EXCEPT !.state = "closed"] ELSE rows[r]]
              /\ unwritten' = unwritten \cup {active[p] : p \in failing}
        /\ abandoned' = abandoned \cup
                {active[p] : p \in {q \in closing \ kept : IsRow(active[q])}}
        /\ events' = events \o SetToSeq({charge[p] : p \in
                                            {q \in closing : enough[q]}})
        /\ UNCHANGED <<record, enough, standIns, jobs, answers, charge, charges,
                       failures>>

(* handle_session_recording: off only sets the switch; on also asks for a  *)
(* row for every session that runs under a stand-in.                       *)
SwitchOff ==
    /\ record
    /\ record' = FALSE
    /\ UNCHANGED <<sessions, database, exceptions, ghosts, failures>>

ResumedAsNew == {p \in Ports : charging[p] /\ active[p] = None}  \* mutant
Resumed == {p \in Ports : charging[p] /\ active[p] < 0}

(* The rows the switch asks for. *)
ResumeJobs == SetToSeq({Job("start", p, active[p]) : p \in Resumed})

SwitchOn ==
    /\ ~record
    /\ Room(Cardinality(Resumed))
    /\ record' = TRUE
    /\ enough' = [p \in Ports |-> enough[p] /\ p \notin Resumed]
    /\ jobs' = jobs \o ResumeJobs
    /\ UNCHANGED <<charging, active, standIns, answers, rows, exceptions,
                   ghosts, failures>>

(* _on_session_start (tag None) and _on_upgrade (tag a stand-in): does the *)
(* session that asked for the row still want it?                           *)
WantedByAny(a) == active[a.port] = a.tag  \* mutant
Wanted(a) == charging[a.port] /\ active[a.port] = a.tag

(* _close_resumed_orphan. *)
OrphanForgotten(a) == UNCHANGED jobs  \* mutant
CloseOrphan(a) == jobs' = Append(jobs, Job("delete", a.port, a.row))

Answer(r) ==
    \E a \in {b \in answers : b.row = r} :
        /\ answers' = answers \ {a}
        /\ IF Wanted(a)
           THEN /\ active' = [active EXCEPT ![a.port] = r]
                /\ UNCHANGED jobs
           ELSE /\ CloseOrphan(a)
                /\ UNCHANGED active
        /\ UNCHANGED <<record, charging, enough, standIns, rows, exceptions,
                       ghosts, failures>>

-----------------------------------------------------------------------------
(* The executor's threads, each job under _db_lock. *)

Insert(job) ==
    /\ rows' = Append(rows, [state |-> "open", port |-> job.port,
                             points |-> FALSE])
    /\ answers' = answers \cup
            {[port |-> job.port, tag |-> job.arg, row |-> Len(rows')]}
    /\ UNCHANGED <<unwritten, failures>>

(* start_session logs the error and returns 0; the callbacks give up. *)
InsertFails ==
    /\ failures < MaxFailures
    /\ failures' = failures + 1
    /\ UNCHANGED <<rows, answers, unwritten>>

EndRow(r) ==
    /\ rows' = IF rows[r].state = "gone" THEN rows
               ELSE [rows EXCEPT ![r].state = "closed"]
    /\ UNCHANGED <<answers, unwritten, failures>>

(* end_session logs the error; nothing in this process tries again. *)
EndFails(r) ==
    /\ unwritten' = unwritten \cup {r}
    /\ UNCHANGED <<rows, answers, failures>>

DeleteRow(r) ==
    /\ rows' = [rows EXCEPT ![r].state = "gone", ![r].points = FALSE]
    /\ UNCHANGED <<answers, unwritten, failures>>

(* So does delete_session, whose points may be deleted already. *)
DeleteFails(r) ==
    /\ \E points \in {rows[r].points, FALSE} :
           rows' = [rows EXCEPT ![r].points = points]
    /\ unwritten' = unwritten \cup {r}
    /\ UNCHANGED <<answers, failures>>

AddPoint(r) ==
    /\ rows' = [rows EXCEPT ![r].points = TRUE]
    /\ UNCHANGED <<answers, unwritten, failures>>

RunJob(i) ==
    /\ i \in DOMAIN jobs
    /\ jobs' = RemoveAt(jobs, i)
    /\ \/ jobs[i].op = "start" /\ Insert(jobs[i])
       \/ jobs[i].op = "start" /\ InsertFails
       \/ jobs[i].op = "end" /\ EndRow(jobs[i].arg)
       \/ jobs[i].op = "end" /\ EndFails(jobs[i].arg)
       \/ jobs[i].op = "delete" /\ DeleteRow(jobs[i].arg)
       \/ jobs[i].op = "delete" /\ DeleteFails(jobs[i].arg)
       \/ jobs[i].op = "point" /\ AddPoint(jobs[i].arg)
    /\ UNCHANGED <<record, sessions, abandoned, ghosts>>

(* What close_stale_sessions makes of the open rows: it deletes those whose *)
(* points hold too little energy and ends the others, unless that fails.   *)
Cleaned(fate, points) ==
    /\ \A r \in OpenRows :
          /\ points[r] => rows[r].points
          /\ fate[r] = "closed" => points[r]
          /\ fate[r] = "gone" => ~points[r]
    /\ rows' = [r \in RowIds |->
                   IF r \in OpenRows
                   THEN [rows[r] EXCEPT !.state = fate[r], !.points = points[r]]
                   ELSE rows[r]]
    /\ unwritten' = {r \in OpenRows : fate[r] = "open"}

(* The process dies and starts again; connect() cleans up. *)
CrashRestart ==
    /\ charging' = [p \in Ports |-> FALSE]
    /\ enough' = [p \in Ports |-> FALSE]
    /\ active' = [p \in Ports |-> None]
    /\ standIns' = 0
    /\ jobs' = <<>>
    /\ answers' = {}
    /\ \E fate \in [OpenRows -> {"closed", "gone", "open"}] :
          \E points \in [OpenRows -> BOOLEAN] : Cleaned(fate, points)
    /\ abandoned' = {}
    /\ UNCHANGED <<record, ghosts, failures>>

-----------------------------------------------------------------------------
Next ==
    \/ \E p \in Ports : StartCharge(p) \/ Sample(p) \/ Close(p)
    \/ CloseAll
    \/ SwitchOff
    \/ SwitchOn
    \/ \E r \in 1 .. MaxRows : Answer(r)
    \/ \E i \in DOMAIN jobs : RunJob(i)
    \/ CrashRestart

Spec == Init /\ [][Next]_vars

(* The executor takes jobs from a first-in first-out queue and the loop    *)
(* runs every callback it is handed.                                       *)
Fairness ==
    /\ WF_vars(RunJob(1))
    /\ \A r \in 1 .. MaxRows : WF_vars(Answer(r))

FairSpec == Spec /\ Fairness

-----------------------------------------------------------------------------
(* Properties. *)

TypeOK ==
    /\ record \in BOOLEAN
    /\ charging \in [Ports -> BOOLEAN]
    /\ enough \in [Ports -> BOOLEAN]
    /\ active \in [Ports -> -MaxCharges .. MaxRows]
    /\ standIns \in 0 .. MaxCharges
    /\ jobs \in Seq([op : {"start", "end", "delete", "point"}, port : Ports,
                     arg : -MaxCharges .. MaxRows])
    /\ answers \subseteq [port : Ports, tag : -MaxCharges .. None,
                          row : 1 .. MaxRows]
    /\ rows \in Seq([state : {"open", "closed", "gone"}, port : Ports,
                     points : BOOLEAN])
    /\ Len(rows) <= MaxRows
    /\ abandoned \subseteq RowIds
    /\ unwritten \subseteq RowIds
    /\ charge \in [Ports -> 0 .. MaxCharges]
    /\ charges \in 0 .. MaxCharges
    /\ events \in Seq(1 .. MaxCharges)
    /\ failures \in 0 .. MaxFailures

(* An id stays registered only while its port charges: a session that ended
   while its insert ran is not registered afterwards, although             
   _close_session has a path for such a leftover id. *)
SidOnlyWhileCharging == \A p \in Ports : active[p] # None => charging[p]

(* A registered row id names an open row of that port and of no other: no
   callback, late delete or restart takes the row from a running session. *)
ActiveRowIsOpen ==
    \A p \in Ports : IsRow(active[p]) =>
        /\ active[p] \in OpenRows
        /\ rows[active[p]].port = p
        /\ \A i \in DOMAIN jobs :
              jobs[i].op \in {"end", "delete"} => jobs[i].arg # active[p]

(* The rows that something will still end or delete: registered rows, rows
   whose callback is due, rows with a write under way. *)
Settling(r) ==
    \/ \E p \in Ports : active[p] = r
    \/ \E a \in answers : a.row = r
    \/ \E i \in DOMAIN jobs : jobs[i].op \in {"end", "delete"} /\ jobs[i].arg = r

(* The rows that stay open until the next start. *)
LeftOpen == abandoned \cup unwritten

(* Every open row is settled by what is still to come, but for the rows of
   sessions that ended with recording switched off or too early at a stop,
   and the rows whose end or deletion failed: these show as "charging" until
   the next start.  No interleaving of the callbacks adds to them. *)
OpenRowsAccounted ==
    \A r \in OpenRows : Settling(r) \/ r \in LeftOpen

(* A charge is announced once (_publish_charge_event), whichever of the
   closing paths meet: the push frame, the timer, a lost link, a stop. *)
OneEventPerCharge == IsInjective(events)

(* Unless an insert failed, a session that should be recorded and has no row
   yet has one on the way, asked for under the id it now carries; so the
   resumed recording of a running charge cannot get stuck. *)
RecordIsComing ==
    \A p \in Ports :
        charging[p] /\ failures = 0
            /\ (active[p] = None \/ (record /\ active[p] < 0)) =>
        \/ \E i \in StartJobs : jobs[i].port = p /\ jobs[i].arg = active[p]
        \/ \E a \in answers : a.port = p /\ a.tag = active[p]

(* A charge is announced once, and one that is to be recorded has its row  *)
(* or will get it.                                                         *)
EventAndRow == OneEventPerCharge /\ RecordIsComing

(* A finished row is history: no late job or callback reopens or deletes
   it, and a deleted row does not come back. *)
FinishedRowsStay ==
    [][\A r \in RowIds : rows[r].state # "open" =>
           rows'[r].state = rows[r].state]_vars

(* A row that no session holds and that is not abandoned is ended or deleted
   in the end, or taken over by a session, or its one write fails. *)
RowsSettle ==
    \A r \in 1 .. MaxRows :
        (r \in OpenRows /\ r \notin abandoned /\ \A p \in Ports : active[p] # r) ~>
        (r \notin OpenRows \/ r \in unwritten \/ \E p \in Ports : active[p] = r)
=============================================================================
