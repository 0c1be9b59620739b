--------------------------- MODULE RuntimeSupervisor ---------------------------
(***************************************************************************)
(* The owner of one device's BLE task (class RuntimeSupervisor): start(),  *)
(* stop(), the done callback, the delayed rebuild after a crash and the    *)
(* in-process (L3) rebuild.  Everything runs on one event loop, so a step  *)
(* is the code between two suspension points; what interleaves is the      *)
(* coroutines: HTTP and MQTT commands, rebuild tasks, and the BLE loops.   *)
(*                                                                         *)
(* A BLE loop or a rebuild task that has ended leaves its identity "free"; *)
(* identities nobody awaits are reused.                                    *)
(***************************************************************************)
EXTENDS Naturals, FiniteSets

CONSTANTS
    NTasks,      \* identities of BLE tasks: 1..NTasks
    NRebuilds,   \* identities of rebuild tasks: 1..NRebuilds
    Callers,     \* coroutines that may be inside stop() at the same time
    MaxRebuilds, \* RuntimeSupervisor.MAX_REBUILDS
    Env          \* which of the behaviours below the environment shows

(* "l3": N > 1, so a manager may ask for an in-process rebuild;            *)
(* "fail": mounting hooks or building a manager may raise;                 *)
(* "unlocked": MQTT/Bemfa commands, which do not take Server._start_lock;  *)
(* "impatient": a device may be enabled while a rebuild of it is pending;  *)
(* "disable_l3": a device may be disabled while its L3 rebuild runs.       *)
EnvChoices == {"l3", "fail", "unlocked", "impatient", "disable_l3"}

ASSUME SupervisorAssumption ==
    /\ NTasks \in Nat \ {0}
    /\ NRebuilds \in Nat \ {0}
    /\ MaxRebuilds \in Nat
    /\ Env \subseteq EnvChoices

Tasks == 1 .. NTasks
Rebuilds == 1 .. NRebuilds
None == 0

VARIABLES
    task,      \* self._task: the current BLE task object, or None
    tst,       \* what became of each BLE task
    rtask,     \* self._rebuild_task
    rst,       \* where each rebuild task is
    rwait,     \* the task a rebuild awaits inside stop()
    stopping,  \* self._stopping
    rebuilds,  \* self._rebuilds
    spc,       \* where each caller of stop() is
    swait,     \* the BLE or rebuild task it awaits there
    lock,      \* the caller holding Server._start_lock, or None
    want,      \* ghost: the last command given, "on" or "off"
    gaveUp     \* ghost: it logged that it gives up, since the last spawn

taskVars == <<task, tst>>
rebuildVars == <<rtask, rst, rwait>>
callVars == <<spc, swait, lock>>
vars == <<taskVars, rebuildVars, stopping, rebuilds, callVars, want, gaveUp>>

Init ==
    /\ task = 1
    /\ tst = [t \in Tasks |-> IF t = 1 THEN "live" ELSE "free"]
    /\ rtask = None
    /\ rst = [r \in Rebuilds |-> "free"]
    /\ rwait = [r \in Rebuilds |-> None]
    /\ stopping = FALSE
    /\ rebuilds = 0
    /\ spc = [c \in Callers |-> "idle"]
    /\ swait = [c \in Callers |-> None]
    /\ lock = {}
    /\ want = "on"
    /\ gaveUp = FALSE

-----------------------------------------------------------------------------
(* Helper state functions *)

Alive(t) == tst[t] \in {"live", "closing"}      \* not task.done()
Loops == {t \in Tasks : Alive(t)}
IsRunningInverted == task # None /\ ~Alive(task)    \* mutant
IsRunning == task # None /\ Alive(task)

RebuildAlive(r) == rst[r] # "free"
RebuildPending == rtask # None /\ RebuildAlive(rtask)

Awaited == {swait[c] : c \in {d \in Callers : spc[d] = "reap"}}
           \cup {rwait[r] : r \in {s \in Rebuilds : rst[s] = "reap"}}
FreeTasks == {t \in Tasks : tst[t] = "free" /\ t \notin Awaited}
NewTask == CHOOSE t \in FreeTasks : TRUE

FreeRebuilds ==
    {r \in Rebuilds :
        /\ rst[r] = "free"
        /\ \A c \in Callers : ~(spc[c] = "rebuild" /\ swait[c] = r)
        /\ \A s \in Rebuilds : ~(rst[s] = "await" /\ rwait[s] = r)}
NewRebuild == CHOOSE r \in FreeRebuilds : TRUE

(* stop(): mark it before the first suspension. *)
StopUnmarked == UNCHANGED stopping    \* mutant
BeginStop == stopping' = TRUE

(* stop(): request_stop and cancel. *)
TaskNotCancelled == UNCHANGED tst    \* mutant
CancelTask == tst' = [tst EXCEPT ![task] = "closing"]

(* _spawn(): create the task, whoever else may still be running. *)
SpawnUnheld ==    \* mutant
    /\ FreeTasks # {}
    /\ tst' = [tst EXCEPT ![NewTask] = "live"]
    /\ gaveUp' = FALSE
    /\ UNCHANGED task
Spawn ==
    /\ FreeTasks # {}
    /\ task' = NewTask
    /\ tst' = [tst EXCEPT ![NewTask] = "live"]
    /\ gaveUp' = FALSE

(* start(): clear _stopping; a task that is still running is left alone. *)
Start ==
    /\ stopping' = FALSE
    /\ IF IsRunning
       THEN UNCHANGED <<taskVars, gaveUp>>
       ELSE Spawn

-----------------------------------------------------------------------------
(* The BLE loop: _run and BLEManager.start() *)

(* An exception escapes the loop. *)
LoopCrash(t) ==
    /\ tst[t] = "live"
    /\ FreeRebuilds # {}
    /\ tst' = [tst EXCEPT ![t] = "crashed"]
    /\ UNCHANGED <<task, rebuildVars, stopping, rebuilds, callVars, want, gaveUp>>

(* A cancelled loop, or one that asked for its own rebuild, disconnects and
   returns: start() swallows the CancelledError. *)
LoopEnds(t) ==
    /\ tst[t] = "closing"
    /\ tst' = [tst EXCEPT ![t] = "quiet"]
    /\ UNCHANGED <<task, rebuildVars, stopping, rebuilds, callVars, want, gaveUp>>

AtCapOffByOne == rebuilds > MaxRebuilds    \* mutant
AtCap == rebuilds >= MaxRebuilds

(* _schedule_rebuild(): give up at the cap, else a new delayed rebuild. *)
ScheduleRebuild ==
    IF AtCap
    THEN /\ gaveUp' = TRUE
         /\ UNCHANGED <<rebuilds, rebuildVars>>
    ELSE /\ FreeRebuilds # {}
         /\ rebuilds' = rebuilds + 1
         /\ rtask' = NewRebuild
         /\ rst' = [rst EXCEPT ![NewRebuild] = "delay"]
         /\ UNCHANGED <<rwait, gaveUp>>

CrashUnheeded(t) == tst[t] = "crashed" /\ stopping    \* mutant
CrashHeeded(t) == tst[t] = "crashed" /\ ~stopping

(* _on_done: the done callback runs one loop turn after the task ended. *)
OnDone(t) ==
    /\ tst[t] \in {"crashed", "quiet"}
    /\ tst' = [tst EXCEPT ![t] = "free"]
    /\ IF CrashHeeded(t)
       THEN ScheduleRebuild
       ELSE UNCHANGED <<rebuilds, rebuildVars, gaveUp>>
    /\ UNCHANGED <<task, stopping, callVars, want>>

(* The manager's authentication is stuck: schedule_rebuild() ignores the
   request while a rebuild is pending; the loop leaves either way. *)
RequestL3(t) ==
    /\ "l3" \in Env
    /\ tst[t] = "live"
    /\ tst' = [tst EXCEPT ![t] = "closing"]
    /\ IF RebuildPending
       THEN UNCHANGED rebuildVars
       ELSE /\ FreeRebuilds # {}
            /\ rtask' = NewRebuild
            /\ rst' = [rst EXCEPT ![NewRebuild] = "new"]
            /\ UNCHANGED rwait
    /\ UNCHANGED <<task, stopping, rebuilds, callVars, want, gaveUp>>

-----------------------------------------------------------------------------
(* _rebuild_after *)

(* The delay is over: give way to a stop, else re-mount the hooks and spawn;
   a failing mount schedules the next attempt. *)
RebuildFires(r) ==
    /\ rst[r] = "delay"
    /\ \/ /\ stopping
          /\ rst' = [rst EXCEPT ![r] = "free"]
          /\ UNCHANGED <<taskVars, rtask, rebuilds, gaveUp>>
       \/ /\ ~stopping
          /\ rst' = [rst EXCEPT ![r] = "free"]
          /\ Spawn
          /\ UNCHANGED <<rtask, rebuilds>>
       \/ /\ ~stopping
          /\ "fail" \in Env
          /\ IF AtCap
             THEN /\ gaveUp' = TRUE
                  /\ rst' = [rst EXCEPT ![r] = "free"]
                  /\ UNCHANGED <<rtask, rebuilds>>
             ELSE /\ rebuilds' = rebuilds + 1
                  /\ rtask' = r
                  /\ UNCHANGED <<rst, gaveUp>>
          /\ UNCHANGED taskVars
    /\ UNCHANGED <<rwait, stopping, callVars, want>>

(* A cancelled rebuild task ends. *)
RebuildDies(r) ==
    /\ rst[r] = "dying"
    /\ rst' = [rst EXCEPT ![r] = "free"]
    /\ UNCHANGED <<taskVars, rtask, rwait, stopping, rebuilds, callVars, want, gaveUp>>

-----------------------------------------------------------------------------
(* _do_rebuild: stop(), rebuild_resources, start() *)

(* cancel() of a rebuild task; one inside its self-await absorbs it. *)
Cancelled(r) == IF rst[r] \in {"delay", "new"} THEN "dying" ELSE rst[r]

RebuiltNotStarted(r) ==    \* mutant
    /\ rebuilds' = 0
    /\ stopping' = FALSE
    /\ task' = None
    /\ rst' = [rst EXCEPT ![r] = "free"]
    /\ UNCHANGED <<tst, gaveUp>>

(* rebuild_resources replaces the manager, then start(); if it raises, the
   error is logged and the device stays stopped, with nobody to retry. *)
ResourcesAndStart(r) ==
    \/ /\ rebuilds' = 0
       /\ stopping' = FALSE
       /\ Spawn
       /\ rst' = [rst EXCEPT ![r] = "free"]
    \/ /\ "fail" \in Env
       /\ stopping' = TRUE
       /\ task' = None
       /\ UNCHANGED tst
       /\ rst' = [rst EXCEPT ![r] = "free"]
       /\ gaveUp' = TRUE
       /\ UNCHANGED rebuilds

(* stop() from request_stop on: cancel the current task and await it. *)
RebuildReap(r) ==
    IF IsRunning
    THEN /\ CancelTask
         /\ rst' = [rst EXCEPT ![r] = "reap"]
         /\ rwait' = [rwait EXCEPT ![r] = task]
         /\ BeginStop
         /\ UNCHANGED <<task, rebuilds, gaveUp>>
    ELSE /\ ResourcesAndStart(r)
         /\ UNCHANGED rwait

(* stop() inside the rebuild: it finds itself in _rebuild_task, cancels and
   awaits itself, which costs one loop turn and is absorbed. *)
RebuildBegins(r) ==
    /\ rst[r] = "new"
    /\ IF RebuildPending
       THEN /\ BeginStop
            /\ rst' = [rst EXCEPT ![rtask] = Cancelled(rtask), ![r] = "await"]
            /\ rwait' = [rwait EXCEPT ![r] = rtask]
            /\ UNCHANGED <<taskVars, rebuilds, gaveUp>>
       ELSE RebuildReap(r)
    /\ UNCHANGED <<rtask, callVars, want>>

RebuildContinues(r) ==
    /\ rst[r] = "await"
    /\ rwait[r] # r => rst[rwait[r]] = "free"
    /\ rtask' = None
    /\ RebuildReap(r)
    /\ UNCHANGED <<callVars, want>>

RebuildReaped(r) ==
    /\ rst[r] = "reap"
    /\ tst[rwait[r]] = "free"
    /\ ResourcesAndStart(r)
    /\ UNCHANGED <<rtask, rwait, callVars, want>>

-----------------------------------------------------------------------------
(* stop() called by a command *)

(* A crash whose rebuild is pending, or whose callback is about to ask for one. *)
RebuildDue == (\E r \in Rebuilds : RebuildAlive(r)) \/ (\E t \in Tasks : tst[t] = "crashed")

L3Running == \E r \in Rebuilds : rst[r] \in {"new", "await", "reap"}

(* stop() from request_stop on: cancel the task and await it, or return. *)
CallReap(c, held) ==
    IF IsRunning
    THEN /\ CancelTask
         /\ spc' = [spc EXCEPT ![c] = "reap"]
         /\ swait' = [swait EXCEPT ![c] = task]
         /\ lock' = held
         /\ UNCHANGED task
    ELSE /\ task' = None
         /\ spc' = [spc EXCEPT ![c] = "idle"]
         /\ lock' = lock \ {c}
         /\ UNCHANGED <<tst, swait>>

(* Disable, over HTTP (under _start_lock) or over MQTT/Bemfa (no lock). *)
Disable(c, locked) ==
    LET held == IF locked THEN {c} ELSE lock
    IN  /\ spc[c] = "idle"
        /\ IF locked THEN lock = {} ELSE "unlocked" \in Env
        /\ "disable_l3" \in Env \/ ~L3Running
        /\ want' = "off"
        /\ BeginStop
        /\ IF RebuildPending
           THEN /\ rst' = [rst EXCEPT ![rtask] = Cancelled(rtask)]
                /\ spc' = [spc EXCEPT ![c] = "rebuild"]
                /\ swait' = [swait EXCEPT ![c] = rtask]
                /\ lock' = held
                /\ UNCHANGED taskVars
           ELSE /\ CallReap(c, held)
                /\ UNCHANGED rst
        /\ UNCHANGED <<rtask, rwait, rebuilds, gaveUp>>

StopAfterRebuild(c) ==
    /\ spc[c] = "rebuild"
    /\ rst[swait[c]] = "free"
    /\ rtask' = None
    /\ CallReap(c, lock)
    /\ UNCHANGED <<rst, rwait, stopping, rebuilds, want, gaveUp>>

(* The awaited task is gone.  A rebuild awaiting the same task registered
   first, so the event loop resumes it first. *)
StopReaped(c) ==
    /\ spc[c] = "reap"
    /\ tst[swait[c]] = "free"
    /\ \A r \in Rebuilds : ~(rst[r] = "reap" /\ rwait[r] = swait[c])
    /\ task' = None
    /\ spc' = [spc EXCEPT ![c] = "idle"]
    /\ lock' = lock \ {c}
    /\ UNCHANGED <<tst, swait, rebuildVars, stopping, rebuilds, want, gaveUp>>

(* Enable: handle_enable answers "already running" without calling start();
   MQTT/Bemfa call start(). *)
Enable(locked) ==
    /\ IF locked THEN lock = {} ELSE "unlocked" \in Env
    /\ "impatient" \in Env \/ ~RebuildDue
    /\ want' = "on"
    /\ IF locked /\ IsRunning
       THEN UNCHANGED <<stopping, taskVars, gaveUp>>
       ELSE Start
    /\ UNCHANGED <<rebuildVars, rebuilds, callVars>>

-----------------------------------------------------------------------------
LoopStep(t) == LoopCrash(t) \/ LoopEnds(t) \/ OnDone(t) \/ RequestL3(t)
RebuildStep(r) ==
    RebuildFires(r) \/ RebuildDies(r) \/ RebuildBegins(r)
    \/ RebuildContinues(r) \/ RebuildReaped(r)
CallerStep(c) == StopAfterRebuild(c) \/ StopReaped(c)

(* Whoever awaits a BLE task resumes in the same turn as its done callback,
   so no command comes in between. *)
WakeDue ==
    \/ \E c \in Callers : spc[c] = "reap" /\ tst[swait[c]] = "free"
    \/ \E r \in Rebuilds : rst[r] = "reap" /\ tst[rwait[r]] = "free"

Command ==
    /\ ~WakeDue
    /\ \E locked \in BOOLEAN : Enable(locked) \/ \E c \in Callers : Disable(c, locked)

Next ==
    \/ \E t \in Tasks : LoopStep(t)
    \/ \E r \in Rebuilds : RebuildStep(r)
    \/ \E c \in Callers : CallerStep(c)
    \/ Command

Spec == Init /\ [][Next]_vars

(* What the event loop owes: callbacks, timers and awaited tasks.  Nothing
   obliges a loop to crash or anyone to send a command. *)
Fairness ==
    /\ \A t \in Tasks : WF_vars(LoopEnds(t)) /\ WF_vars(OnDone(t))
    /\ \A r \in Rebuilds : WF_vars(RebuildStep(r))
    /\ \A c \in Callers : WF_vars(CallerStep(c))

FairSpec == Spec /\ Fairness

-----------------------------------------------------------------------------
TypeOK ==
    /\ task \in Tasks \cup {None}
    /\ tst \in [Tasks -> {"free", "live", "closing", "crashed", "quiet"}]
    /\ rtask \in Rebuilds \cup {None}
    /\ rst \in [Rebuilds -> {"free", "new", "await", "reap", "delay", "dying"}]
    /\ rwait \in [Rebuilds -> Tasks \cup Rebuilds \cup {None}]
    /\ stopping \in BOOLEAN
    /\ rebuilds \in 0 .. MaxRebuilds
    /\ spc \in [Callers -> {"idle", "rebuild", "reap"}]
    /\ swait \in [Callers -> Tasks \cup Rebuilds \cup {None}]
    /\ lock \in SUBSET Callers
    /\ want \in {"on", "off"}
    /\ gaveUp \in BOOLEAN

Quiet == (\A c \in Callers : spc[c] = "idle") /\ (\A r \in Rebuilds : rst[r] = "free")

(* The class is "the only holder of rt.task": a device never has two BLE
   loops (two of them would fight over the adapter, the queue and the
   sessions, and only one can be stopped). *)
OneLoop == Cardinality(Loops) <= 1

(* The loop that runs is the one self._task names, so stop() can reap it. *)
LoopIsHeld == \A t \in Loops : tst[t] = "live" => task = t

(* Once every stop() has returned and nothing was enabled since, no BLE loop
   of the device is left: "stop all supervisors first (prevents rebuilds)". *)
StopSticks == want = "off" /\ Quiet => Loops = {}

(* The last enable wins: when nothing is in progress, a device that was
   enabled has a running loop, or its crash is about to be handled, or the
   rebuild budget is spent and said so. *)
StartSticks ==
    want = "on" /\ Quiet =>
        Loops # {} \/ gaveUp \/ \E t \in Tasks : tst[t] = "crashed"

(* A rebuild never brings a loop back while the last command was a disable
   (only a start() may). *)
NoRevival == [][want = "off" /\ want' = "off" => Loops' \subseteq Loops]_vars

(* The reason the class exists: an enabled device whose task died is brought
   back, or giving up has been reported. *)
NoSilentDeath ==
    (want = "on" /\ Loops = {}) ~> (Loops # {} \/ gaveUp \/ want = "off")

(* stop() always returns. *)
StopReturns == \A c \in Callers : (spc[c] # "idle") ~> (spc[c] = "idle")
=============================================================================
