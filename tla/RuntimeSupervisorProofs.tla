------------------------ MODULE RuntimeSupervisorProofs ------------------------
(***************************************************************************)
(* Proofs about the runtime supervisor in the environments of              *)
(* MCRuntimeSupervisor: types in both; with commands that take the lock,   *)
(* that one loop at most is alive and held, that a stop and a start stick; *)
(* and in both, that no loop comes up for a disabled device.               *)
(***************************************************************************)
EXTENDS MCRuntimeSupervisor, FiniteSetTheorems, TLAPS

-----------------------------------------------------------------------------
(* The invariant with the lock. *)

L3Steps == {"new", "await", "reap"}
NoneAlive == \A t \in Tasks : ~Alive(t)
NoRebuild == \A r \in Rebuilds : rst[r] = "free"
NoCrash == \A t \in Tasks : tst[t] # "crashed"
NobodyStops == \A c \in Callers : spc[c] = "idle"

(* Who is inside stop() has the lock, and its command was the last one. *)
CallersAreLocked == \A c \in Callers : spc[c] # "idle" => lock = {c} /\ want = "off"

(* A loop that may still run is the one that stop() would reap, ... *)
LoopsAreHeld == \A t \in Tasks : Alive(t) => task = t

(* ... and likewise a rebuild, until it forgets itself to reap the loop. *)
RebuildsAreHeld ==
    /\ \A r, s \in Rebuilds : RebuildAlive(r) /\ RebuildAlive(s) => r = s
    /\ \A r \in Rebuilds : rst[r] \notin {"free", "reap"} => rtask = r

(* A loop goes on only if it is wanted and nobody is about to replace it. *)
LiveIsWanted ==
    \A t \in Tasks : tst[t] = "live" => want = "on" /\ ~stopping /\ NoRebuild

(* When a crash is handled nothing else is going on. *)
CrashedIsAlone ==
    \A t \in Tasks : tst[t] = "crashed" =>
        /\ NoneAlive /\ NoRebuild /\ NobodyStops
        /\ \A u \in Tasks : tst[u] = "crashed" => u = t
        /\ want = "on" => ~stopping

(* Somebody follows up a loop that leaves. *)
ClosingIsAwaited ==
    \A t \in Tasks : tst[t] = "closing" =>
        \/ \E r \in Rebuilds :
              rst[r] \in {"new", "await"} \/ (rst[r] = "reap" /\ rwait[r] = t)
        \/ \E c \in Callers : spc[c] = "reap" /\ swait[c] = t

(* ... and a rebuild that was cancelled. *)
DyingIsAwaited ==
    \A r \in Rebuilds : rst[r] = "dying" =>
        \E c \in Callers : spc[c] = "rebuild" /\ swait[c] = r

(* A rebuild is for a device that is wanted, unless a stop has cancelled it. *)
RebuildsAreWanted ==
    /\ \A r \in Rebuilds : rst[r] \in L3Steps => want = "on"
    /\ \A r \in Rebuilds : rst[r] = "delay" => want = "on" /\ ~stopping /\ NoneAlive
    /\ \A r \in Rebuilds : rst[r] = "dying" => want = "off" /\ NoneAlive

OffIsMarked == want = "off" => stopping
OnIsCaredFor ==
    want = "on" =>
        \/ ~NoneAlive \/ ~NoRebuild \/ gaveUp
        \/ \E t \in Tasks : tst[t] = "crashed"

SupervisorInv ==
    /\ CallersAreLocked /\ LoopsAreHeld /\ RebuildsAreHeld /\ LiveIsWanted
    /\ CrashedIsAlone /\ ClosingIsAwaited /\ DyingIsAwaited
    /\ RebuildsAreWanted /\ OffIsMarked /\ OnIsCaredFor

(* Without the lock: a device that is not wanted is marked so, whatever overlaps,
   and a delayed rebuild gives way to the mark. *)
UnlockedInv ==
    /\ want = "off" => stopping
    /\ \A r \in U!Rebuilds : rst[r] \in {"free", "delay", "dying"}

Locked == "unlocked" \notin Env /\ "impatient" \notin Env /\ "disable_l3" \notin Env


-----------------------------------------------------------------------------
(* Types.                                                                  *)

LEMMA NewTaskIsFree ==
    ASSUME FreeTasks # {}
    PROVE  NewTask \in Tasks /\ tst[NewTask] = "free" /\ NewTask \notin Awaited
BY DEF NewTask, FreeTasks

LEMMA NewRebuildIsFree ==
    ASSUME FreeRebuilds # {}
    PROVE  /\ NewRebuild \in Rebuilds
           /\ rst[NewRebuild] = "free"
           /\ \A c \in Callers : ~(spc[c] = "rebuild" /\ swait[c] = NewRebuild)
BY DEF NewRebuild, FreeRebuilds

LEMMA TypesStart == Init => TypeOK
<1> SUFFICES ASSUME Init PROVE TypeOK
    OBVIOUS
<1>1. 1 \in Tasks /\ 0 \in 0 .. MaxRebuilds
    BY SupervisorAssumption DEF Tasks
<1>2. /\ tst \in [Tasks -> {"free", "live", "closing", "crashed", "quiet"}]
      /\ rst \in [Rebuilds -> {"free", "new", "await", "reap", "delay", "dying"}]
      /\ spc \in [Callers -> {"idle", "rebuild", "reap"}]
    BY DEF Init
<1>3. /\ rwait \in [Rebuilds -> Tasks \cup Rebuilds \cup {None}]
      /\ swait \in [Callers -> Tasks \cup Rebuilds \cup {None}]
    BY DEF Init
<1>4. /\ task \in Tasks \cup {None} /\ rtask \in Rebuilds \cup {None}
      /\ stopping \in BOOLEAN /\ rebuilds \in 0 .. MaxRebuilds
      /\ lock \in SUBSET Callers /\ want \in {"on", "off"} /\ gaveUp \in BOOLEAN
    BY <1>1 DEF Init
<1> QED
    BY <1>2, <1>3, <1>4 DEF TypeOK

(* What a step of each kind does to the types. *)
LEMMA LoopTypes ==
    ASSUME TypeOK, NEW t \in Tasks, LoopStep(t)
    PROVE  TypeOK'
<1>1. CASE LoopCrash(t)
    BY <1>1 DEF LoopCrash, TypeOK, rebuildVars, callVars
<1>2. CASE LoopEnds(t)
    BY <1>2 DEF LoopEnds, TypeOK, rebuildVars, callVars
<1>3. CASE OnDone(t)
    <2>1. CASE UNCHANGED <<rebuilds, rebuildVars>> /\ gaveUp' \in BOOLEAN
        BY <1>3, <2>1 DEF OnDone, TypeOK, rebuildVars, callVars
    <2>2. CASE ScheduleRebuild /\ ~AtCap
        <3>1. rebuilds + 1 \in 0 .. MaxRebuilds
            BY <2>2, SupervisorAssumption DEF AtCap, TypeOK
        <3> QED
            BY <1>3, <2>2, <3>1, NewRebuildIsFree
            DEF OnDone, ScheduleRebuild, TypeOK, callVars
    <2>3. (UNCHANGED <<rebuilds, rebuildVars>> /\ gaveUp' \in BOOLEAN)
          \/ (ScheduleRebuild /\ ~AtCap)
        BY <1>3, Zenon DEF OnDone, ScheduleRebuild, TypeOK
    <2> QED
        BY <2>1, <2>2, <2>3
<1>4. CASE RequestL3(t)
    BY <1>4, NewRebuildIsFree
    DEF RequestL3, TypeOK, rebuildVars, callVars
<1> QED
    BY <1>1, <1>2, <1>3, <1>4 DEF LoopStep

LEMMA ResourcesTypes ==
    ASSUME TypeOK, NEW r \in Rebuilds, ResourcesAndStart(r)
    PROVE  /\ task' \in Tasks \cup {None}
           /\ tst' \in [Tasks -> {"free", "live", "closing", "crashed", "quiet"}]
           /\ rst' \in [Rebuilds -> {"free", "new", "await", "reap", "delay", "dying"}]
           /\ stopping' \in BOOLEAN /\ rebuilds' \in 0 .. MaxRebuilds
           /\ gaveUp' \in BOOLEAN
<1>1. 0 \in 0 .. MaxRebuilds
    BY SupervisorAssumption
<1>2. /\ task' \in Tasks \cup {None}
      /\ tst' \in [Tasks -> {"free", "live", "closing", "crashed", "quiet"}]
    BY NewTaskIsFree DEF ResourcesAndStart, Spawn, TypeOK
<1>3. /\ rst' \in [Rebuilds -> {"free", "new", "await", "reap", "delay", "dying"}]
      /\ stopping' \in BOOLEAN /\ rebuilds' \in 0 .. MaxRebuilds
      /\ gaveUp' \in BOOLEAN
    BY <1>1 DEF ResourcesAndStart, Spawn, TypeOK
<1> QED
    BY <1>2, <1>3

LEMMA ReapTypes ==
    ASSUME TypeOK, NEW r \in Rebuilds, RebuildReap(r)
    PROVE  /\ task' \in Tasks \cup {None}
           /\ tst' \in [Tasks -> {"free", "live", "closing", "crashed", "quiet"}]
           /\ rst' \in [Rebuilds -> {"free", "new", "await", "reap", "delay", "dying"}]
           /\ rwait' \in [Rebuilds -> Tasks \cup Rebuilds \cup {None}]
           /\ stopping' \in BOOLEAN /\ rebuilds' \in 0 .. MaxRebuilds
           /\ gaveUp' \in BOOLEAN
<1>1. CASE IsRunning
    BY <1>1 DEF RebuildReap, IsRunning, CancelTask, BeginStop, TypeOK
<1>2. CASE ~IsRunning
    BY <1>2, ResourcesTypes DEF RebuildReap, TypeOK
<1> QED
    BY <1>1, <1>2

LEMMA RebuildTypes ==
    ASSUME TypeOK, NEW r \in Rebuilds, RebuildStep(r)
    PROVE  TypeOK'
<1>1. CASE RebuildFires(r)
    <2>1. CASE ~AtCap
        <3>1. rebuilds + 1 \in 0 .. MaxRebuilds
            BY <2>1, SupervisorAssumption DEF AtCap, TypeOK
        <3> QED
            BY <1>1, <2>1, <3>1, NewTaskIsFree
            DEF RebuildFires, Spawn, TypeOK, taskVars, callVars
    <2>2. CASE AtCap
        BY <1>1, <2>2, NewTaskIsFree
        DEF RebuildFires, Spawn, TypeOK, taskVars, callVars
    <2> QED
        BY <2>1, <2>2
<1>2. CASE RebuildDies(r)
    BY <1>2 DEF RebuildDies, TypeOK, taskVars, callVars
<1>3. CASE RebuildBegins(r)
    <2>1. CASE RebuildPending
        BY <1>3, <2>1
        DEF RebuildBegins, RebuildPending, BeginStop, Cancelled, TypeOK, taskVars, callVars
    <2>2. CASE ~RebuildPending
        BY <1>3, <2>2, ReapTypes DEF RebuildBegins, TypeOK, callVars
    <2> QED
        BY <2>1, <2>2
<1>4. CASE RebuildContinues(r)
    BY <1>4, ReapTypes DEF RebuildContinues, TypeOK, callVars
<1>5. CASE RebuildReaped(r)
    BY <1>5, ResourcesTypes DEF RebuildReaped, TypeOK, callVars
<1> QED
    BY <1>1, <1>2, <1>3, <1>4, <1>5 DEF RebuildStep

LEMMA CallReapTypes ==
    ASSUME TypeOK, NEW c \in Callers, NEW held \in SUBSET Callers, CallReap(c, held)
    PROVE  /\ task' \in Tasks \cup {None}
           /\ tst' \in [Tasks -> {"free", "live", "closing", "crashed", "quiet"}]
           /\ spc' \in [Callers -> {"idle", "rebuild", "reap"}]
           /\ swait' \in [Callers -> Tasks \cup Rebuilds \cup {None}]
           /\ lock' \in SUBSET Callers
BY DEF CallReap, IsRunning, CancelTask, TypeOK

LEMMA CallerTypes ==
    ASSUME TypeOK, NEW c \in Callers, CallerStep(c)
    PROVE  TypeOK'
<1>1. CASE StopAfterRebuild(c)
    BY <1>1, CallReapTypes DEF StopAfterRebuild, TypeOK
<1>2. CASE StopReaped(c)
    BY <1>2 DEF StopReaped, TypeOK, rebuildVars
<1> QED
    BY <1>1, <1>2 DEF CallerStep

LEMMA CommandTypes ==
    ASSUME TypeOK, Command
    PROVE  TypeOK'
<1>1. PICK locked \in BOOLEAN : Enable(locked) \/ \E c \in Callers : Disable(c, locked)
    BY DEF Command
<1>2. CASE Enable(locked)
    BY <1>2, NewTaskIsFree
    DEF Enable, Start, Spawn, TypeOK, taskVars, rebuildVars, callVars
<1>3. ASSUME NEW c \in Callers, Disable(c, locked)
      PROVE  TypeOK'
    <2> DEFINE held == IF locked THEN {c} ELSE lock
    <2>1. held \in SUBSET Callers
        BY <1>3 DEF TypeOK
    <2>2. CASE RebuildPending
        <3>1. /\ want' = "off" /\ stopping' = TRUE
              /\ rst' = [rst EXCEPT ![rtask] = Cancelled(rtask)]
              /\ spc' = [spc EXCEPT ![c] = "rebuild"]
              /\ swait' = [swait EXCEPT ![c] = rtask]
              /\ lock' = held
              /\ UNCHANGED <<taskVars, rtask, rwait, rebuilds, gaveUp>>
            BY <1>3, <2>2 DEF Disable, BeginStop
        <3> QED
            BY <2>1, <2>2, <3>1 DEF RebuildPending, Cancelled, TypeOK, taskVars
    <2>3. CASE ~RebuildPending
        <3>1. /\ want' = "off" /\ stopping' = TRUE
              /\ CallReap(c, held)
              /\ UNCHANGED <<rst, rtask, rwait, rebuilds, gaveUp>>
            BY <1>3, <2>3 DEF Disable, BeginStop
        <3> HIDE DEF held
        <3> QED
            BY <2>1, <3>1, CallReapTypes DEF TypeOK
    <2> QED
        BY <2>2, <2>3
<1> QED
    BY <1>1, <1>2, <1>3

LEMMA TypesStep ==
    ASSUME TypeOK, [Next]_vars
    PROVE  TypeOK'
<1>1. CASE UNCHANGED vars
    BY <1>1 DEF vars, taskVars, rebuildVars, callVars, TypeOK
<1> QED
    BY <1>1, LoopTypes, RebuildTypes, CallerTypes, CommandTypes DEF Next


-----------------------------------------------------------------------------
(* The invariant is inductive with the lock.                               *)

LEMMA SupervisorStart == TypeOK /\ Init => SupervisorInv
<1> SUFFICES ASSUME TypeOK, Init PROVE SupervisorInv
    OBVIOUS
<1>1. /\ \A t \in Tasks : tst[t] = IF t = 1 THEN "live" ELSE "free"
      /\ \A r \in Rebuilds : rst[r] = "free"
      /\ \A c \in Callers : spc[c] = "idle"
      /\ task = 1 /\ want = "on" /\ stopping = FALSE
    BY DEF Init
<1>2. 1 \in Tasks
    BY SupervisorAssumption DEF Tasks
<1>3. CallersAreLocked /\ LoopsAreHeld /\ RebuildsAreHeld /\ LiveIsWanted
    BY <1>1 DEF CallersAreLocked, LoopsAreHeld, RebuildsAreHeld, LiveIsWanted,
                Alive, RebuildAlive, NoRebuild
<1>4. CrashedIsAlone /\ ClosingIsAwaited /\ DyingIsAwaited
    BY <1>1 DEF CrashedIsAlone, ClosingIsAwaited, DyingIsAwaited
<1>5. RebuildsAreWanted /\ OffIsMarked /\ OnIsCaredFor
    BY <1>1, <1>2 DEF RebuildsAreWanted, OffIsMarked, OnIsCaredFor, L3Steps, NoneAlive, Alive
<1> QED
    BY <1>3, <1>4, <1>5 DEF SupervisorInv

(* A stop is only going on for a device that is not wanted. *)
LEMMA WantedIsNotStopped ==
    ASSUME SupervisorInv, want = "on"
    PROVE  NobodyStops
BY DEF SupervisorInv, CallersAreLocked, NobodyStops

(* Two loops are never alive, and what is alive is running. *)
LEMMA AliveIsRunning ==
    ASSUME SupervisorInv, NEW t \in Tasks, Alive(t)
    PROVE  /\ task = t /\ IsRunning
           /\ \A u \in Tasks : Alive(u) => u = t
BY DEF SupervisorInv, LoopsAreHeld, IsRunning, Tasks, None

LEMMA NotRunningIsNoneAlive ==
    ASSUME SupervisorInv, ~IsRunning
    PROVE  NoneAlive
BY AliveIsRunning DEF NoneAlive

(* A rebuild excludes other rebuilds, running loops and unhandled crashes. *)
LEMMA RebuildIsAlone ==
    ASSUME SupervisorInv, NEW r \in Rebuilds, rst[r] # "free"
    PROVE  /\ \A s \in Rebuilds : rst[s] # "free" => s = r
           /\ \A t \in Tasks : tst[t] # "live"
           /\ NoCrash
<1>1. ~NoRebuild
    BY DEF NoRebuild
<1> QED
    BY <1>1 DEF SupervisorInv, RebuildsAreHeld, LiveIsWanted, CrashedIsAlone,
                RebuildAlive, NoCrash

LEMMA SpawnedKeeps ==
    ASSUME TypeOK, Spawn, NoneAlive, NoCrash, NoRebuild', NobodyStops',
           want' = "on", ~stopping'
    PROVE  SupervisorInv'
<1>1. /\ NewTask \in Tasks /\ task' = NewTask
      /\ \A t \in Tasks : tst'[t] = IF t = NewTask THEN "live" ELSE tst[t]
    BY NewTaskIsFree DEF Spawn, TypeOK
<1>2. /\ \A t \in Tasks : t # NewTask => tst'[t] \in {"free", "quiet"}
      /\ tst'[NewTask] = "live"
    BY <1>1 DEF NoneAlive, NoCrash, Alive, TypeOK
<1>3. CallersAreLocked' /\ LoopsAreHeld' /\ RebuildsAreHeld' /\ LiveIsWanted'
    BY <1>1, <1>2 DEF CallersAreLocked, LoopsAreHeld, RebuildsAreHeld, LiveIsWanted,
                NobodyStops, Alive, RebuildAlive, NoRebuild
<1>4. CrashedIsAlone' /\ ClosingIsAwaited' /\ DyingIsAwaited'
    BY <1>1, <1>2 DEF CrashedIsAlone, ClosingIsAwaited, DyingIsAwaited, NoRebuild
<1>5. RebuildsAreWanted' /\ OffIsMarked' /\ OnIsCaredFor'
    BY <1>1, <1>2 DEF RebuildsAreWanted, OffIsMarked, OnIsCaredFor, L3Steps,
                NoneAlive, Alive, NoRebuild
<1> QED
    BY <1>3, <1>4, <1>5 DEF SupervisorInv

LEMMA GivenUpKeeps ==
    ASSUME NoneAlive', NoCrash', NoRebuild', NobodyStops', want' = "on", gaveUp'
    PROVE  SupervisorInv'
<1>1. CallersAreLocked' /\ LoopsAreHeld' /\ RebuildsAreHeld' /\ LiveIsWanted'
    BY DEF CallersAreLocked, LoopsAreHeld, RebuildsAreHeld, LiveIsWanted,
           NobodyStops, Alive, NoneAlive, RebuildAlive, NoRebuild
<1>2. CrashedIsAlone' /\ ClosingIsAwaited' /\ DyingIsAwaited'
    BY DEF CrashedIsAlone, ClosingIsAwaited, DyingIsAwaited, NoRebuild, NoneAlive,
           Alive, NoCrash
<1>3. RebuildsAreWanted' /\ OffIsMarked' /\ OnIsCaredFor'
    BY DEF RebuildsAreWanted, OffIsMarked, OnIsCaredFor, L3Steps, NoRebuild
<1> QED
    BY <1>1, <1>2, <1>3 DEF SupervisorInv


LEMMA CrashKeeps ==
    ASSUME TypeOK, SupervisorInv, NEW t \in Tasks, LoopCrash(t)
    PROVE  SupervisorInv'
<1>1. /\ tst[t] = "live" /\ task = t
      /\ \A u \in Tasks : tst'[u] = IF u = t THEN "crashed" ELSE tst[u]
      /\ \A u \in Tasks : u # t => ~Alive(u)
      /\ UNCHANGED <<task, rtask, rst, rwait, stopping, spc, swait, lock, want, gaveUp>>
    BY AliveIsRunning DEF LoopCrash, TypeOK, Alive, rebuildVars, callVars
<1>2. want = "on" /\ ~stopping /\ NoRebuild /\ NobodyStops
    BY <1>1, WantedIsNotStopped DEF SupervisorInv, LiveIsWanted
<1>3. NoneAlive' /\ NoRebuild' /\ NobodyStops'
    BY <1>1, <1>2 DEF NoneAlive, NoRebuild, NobodyStops, Alive
<1>4. \A u \in Tasks : tst'[u] = "crashed" => u = t
    <2>1. NoCrash \/ NoneAlive
        BY DEF SupervisorInv, CrashedIsAlone, NoCrash
    <2> QED
        BY <1>1, <2>1 DEF NoCrash, NoneAlive, Alive
<1>5. CallersAreLocked' /\ LoopsAreHeld' /\ RebuildsAreHeld' /\ LiveIsWanted'
    BY <1>3 DEF CallersAreLocked, LoopsAreHeld, RebuildsAreHeld, LiveIsWanted,
                NobodyStops, Alive, NoneAlive, RebuildAlive, NoRebuild
<1>6. CrashedIsAlone' /\ ClosingIsAwaited' /\ DyingIsAwaited'
    BY <1>1, <1>2, <1>3, <1>4 DEF CrashedIsAlone, ClosingIsAwaited, DyingIsAwaited,
                NoRebuild, NoneAlive, Alive
<1>7. RebuildsAreWanted' /\ OffIsMarked' /\ OnIsCaredFor'
    BY <1>1, <1>2, <1>3 DEF RebuildsAreWanted, OffIsMarked, OnIsCaredFor, L3Steps, NoRebuild
<1> QED
    BY <1>5, <1>6, <1>7 DEF SupervisorInv

LEMMA EndKeeps ==
    ASSUME TypeOK, SupervisorInv, NEW t \in Tasks, LoopEnds(t)
    PROVE  SupervisorInv'
<1>1. /\ tst[t] = "closing" /\ task = t
      /\ \A u \in Tasks : tst'[u] = IF u = t THEN "quiet" ELSE tst[u]
      /\ \A u \in Tasks : u # t => ~Alive(u)
      /\ UNCHANGED <<task, rtask, rst, rwait, stopping, spc, swait, lock, want, gaveUp>>
    BY AliveIsRunning DEF LoopEnds, TypeOK, Alive, rebuildVars, callVars
<1>2. NoneAlive'
    BY <1>1 DEF NoneAlive, Alive
<1>3. NoCrash'
    BY <1>1 DEF SupervisorInv, CrashedIsAlone, NoneAlive, Alive, NoCrash
<1>4. CallersAreLocked' /\ LoopsAreHeld' /\ RebuildsAreHeld' /\ LiveIsWanted'
    BY <1>1, <1>2 DEF SupervisorInv, CallersAreLocked, LoopsAreHeld, RebuildsAreHeld,
                LiveIsWanted, Alive, NoneAlive, RebuildAlive, NoRebuild
<1>5. CrashedIsAlone' /\ ClosingIsAwaited' /\ DyingIsAwaited'
    BY <1>1, <1>2, <1>3 DEF SupervisorInv, CrashedIsAlone, ClosingIsAwaited,
                DyingIsAwaited, NoneAlive, Alive, NoCrash
<1>6. RebuildsAreWanted' /\ OffIsMarked'
    BY <1>1, <1>2 DEF SupervisorInv, RebuildsAreWanted, OffIsMarked, L3Steps
<1>7. want = "on" => ~NoRebuild
    BY <1>1, WantedIsNotStopped
    DEF SupervisorInv, ClosingIsAwaited, NobodyStops, NoRebuild
<1>8. OnIsCaredFor'
    BY <1>1, <1>7 DEF OnIsCaredFor, NoRebuild
<1> QED
    BY <1>4, <1>5, <1>6, <1>8 DEF SupervisorInv

LEMMA DoneKeeps ==
    ASSUME TypeOK, SupervisorInv, NEW t \in Tasks, OnDone(t)
    PROVE  SupervisorInv'
<1>1. /\ tst[t] \in {"crashed", "quiet"}
      /\ \A u \in Tasks : tst'[u] = IF u = t THEN "free" ELSE tst[u]
      /\ UNCHANGED <<task, stopping, spc, swait, lock, want>>
    BY DEF OnDone, TypeOK, callVars
<1>2. NoneAlive => NoneAlive'
    BY <1>1 DEF NoneAlive, Alive
<1>3. CASE tst[t] = "crashed" /\ want = "on"
    <2>1. NoneAlive' /\ NobodyStops' /\ NoCrash' /\ NoRebuild /\ ~stopping' /\ want' = "on"
        BY <1>1, <1>2, <1>3
        DEF SupervisorInv, CrashedIsAlone, NoneAlive, Alive, NobodyStops, NoCrash
    <2>2. CASE gaveUp' /\ UNCHANGED rst
        BY <2>1, <2>2, GivenUpKeeps DEF NoRebuild
    <2>3. ASSUME NEW r \in Rebuilds, rtask' = r, rst' = [rst EXCEPT ![r] = "delay"]
          PROVE  SupervisorInv'
        <3>1. \A s \in Rebuilds : rst'[s] = IF s = r THEN "delay" ELSE "free"
            BY <2>1, <2>3 DEF TypeOK, NoRebuild
        <3>2. CallersAreLocked' /\ LoopsAreHeld' /\ RebuildsAreHeld' /\ LiveIsWanted'
            BY <2>1, <2>3, <3>1 DEF CallersAreLocked, LoopsAreHeld, RebuildsAreHeld,
                LiveIsWanted, NobodyStops, Alive, NoneAlive, RebuildAlive
        <3>3. CrashedIsAlone' /\ ClosingIsAwaited' /\ DyingIsAwaited'
            BY <2>1, <3>1 DEF CrashedIsAlone, ClosingIsAwaited, DyingIsAwaited,
                NoneAlive, Alive, NoCrash
        <3>4. RebuildsAreWanted' /\ OffIsMarked' /\ OnIsCaredFor'
            BY <2>1, <3>1 DEF RebuildsAreWanted, OffIsMarked, OnIsCaredFor, L3Steps, NoRebuild
        <3> QED
            BY <3>2, <3>3, <3>4 DEF SupervisorInv
    <2>4. ScheduleRebuild
        BY <1>1, <1>3, <2>1 DEF OnDone, CrashHeeded
    <2> QED
        BY <2>2, <2>3, <2>4, NewRebuildIsFree DEF ScheduleRebuild, rebuildVars
<1>4. CASE ~(tst[t] = "crashed" /\ want = "on")
    <2>1. ~CrashHeeded(t)
        BY <1>4 DEF CrashHeeded, SupervisorInv, OffIsMarked, TypeOK
    <2>2. UNCHANGED <<rtask, rst, rwait, gaveUp>>
        BY <2>1 DEF OnDone, rebuildVars
    <2>3. CallersAreLocked' /\ LoopsAreHeld' /\ RebuildsAreHeld' /\ LiveIsWanted'
        BY <1>1, <2>2 DEF SupervisorInv, CallersAreLocked, LoopsAreHeld, RebuildsAreHeld,
                LiveIsWanted, Alive, RebuildAlive, NoRebuild
    <2>4. CrashedIsAlone'
        BY <1>1, <1>2, <2>2 DEF SupervisorInv, CrashedIsAlone, NoRebuild, NobodyStops
    <2>5. ClosingIsAwaited' /\ DyingIsAwaited'
        BY <1>1, <2>2 DEF SupervisorInv, ClosingIsAwaited, DyingIsAwaited
    <2>6. RebuildsAreWanted' /\ OffIsMarked'
        BY <1>1, <1>2, <2>2 DEF SupervisorInv, RebuildsAreWanted, OffIsMarked, L3Steps
    <2>7. OnIsCaredFor'
        <3>1. ~NoneAlive => ~NoneAlive'
            BY <1>1 DEF NoneAlive, Alive
        <3> QED
            BY <1>1, <1>4, <2>2, <3>1 DEF SupervisorInv, OnIsCaredFor, NoRebuild
    <2> QED
        BY <2>3, <2>4, <2>5, <2>6, <2>7 DEF SupervisorInv
<1> QED
    BY <1>3, <1>4

LEMMA RequestKeeps ==
    ASSUME TypeOK, SupervisorInv, NEW t \in Tasks, RequestL3(t)
    PROVE  SupervisorInv'
<1>1. /\ tst[t] = "live" /\ task = t
      /\ \A u \in Tasks : tst'[u] = IF u = t THEN "closing" ELSE tst[u]
      /\ \A u \in Tasks : u # t => ~Alive(u)
      /\ UNCHANGED <<task, stopping, spc, swait, lock, want, gaveUp>>
    BY AliveIsRunning DEF RequestL3, TypeOK, Alive, callVars
<1>2. want = "on" /\ NoRebuild /\ NobodyStops
    BY <1>1, WantedIsNotStopped DEF SupervisorInv, LiveIsWanted
<1>3. ~RebuildPending
    BY <1>2 DEF RebuildPending, RebuildAlive, NoRebuild, TypeOK
<1>4. PICK r \in Rebuilds : rtask' = r /\ rst' = [rst EXCEPT ![r] = "new"]
    BY <1>3, NewRebuildIsFree DEF RequestL3
<1>5. \A s \in Rebuilds : rst'[s] = IF s = r THEN "new" ELSE "free"
    BY <1>2, <1>4 DEF TypeOK, NoRebuild
<1>6. NoCrash' /\ \A u \in Tasks : tst'[u] # "live"
    BY <1>1 DEF SupervisorInv, CrashedIsAlone, NoneAlive, Alive, NoCrash
<1>7. CallersAreLocked' /\ LoopsAreHeld' /\ RebuildsAreHeld' /\ LiveIsWanted'
    BY <1>1, <1>2, <1>4, <1>5, <1>6 DEF CallersAreLocked, LoopsAreHeld, RebuildsAreHeld,
                LiveIsWanted, NobodyStops, Alive, RebuildAlive
<1>8. CrashedIsAlone' /\ ClosingIsAwaited' /\ DyingIsAwaited'
    BY <1>5, <1>6 DEF CrashedIsAlone, ClosingIsAwaited, DyingIsAwaited, NoCrash
<1>9. RebuildsAreWanted' /\ OffIsMarked' /\ OnIsCaredFor'
    BY <1>1, <1>2, <1>5 DEF RebuildsAreWanted, OffIsMarked, OnIsCaredFor, L3Steps, NoRebuild
<1> QED
    BY <1>7, <1>8, <1>9 DEF SupervisorInv


LEMMA FiresKeeps ==
    ASSUME TypeOK, SupervisorInv, NEW r \in Rebuilds, RebuildFires(r)
    PROVE  SupervisorInv'
<1>1. rst[r] = "delay" /\ UNCHANGED <<rwait, stopping, spc, swait, lock, want>>
    BY DEF RebuildFires, callVars
<1>2. want = "on" /\ ~stopping /\ NoneAlive
    BY <1>1 DEF SupervisorInv, RebuildsAreWanted
<1>3. NobodyStops /\ NobodyStops' /\ NoCrash /\ rtask = r
    BY <1>1, <1>2, WantedIsNotStopped, RebuildIsAlone
    DEF NobodyStops, SupervisorInv, RebuildsAreHeld
<1>4. CASE rst' = [rst EXCEPT ![r] = "free"] /\ Spawn
    <2>1. NoRebuild'
        BY <1>1, <1>4, RebuildIsAlone DEF NoRebuild, TypeOK
    <2> QED
        BY <1>1, <1>2, <1>3, <1>4, <2>1, SpawnedKeeps
<1>5. CASE rst' = [rst EXCEPT ![r] = "free"] /\ gaveUp' /\ UNCHANGED taskVars
    <2>1. NoRebuild'
        BY <1>1, <1>5, RebuildIsAlone DEF NoRebuild, TypeOK
    <2>2. NoneAlive' /\ NoCrash'
        BY <1>2, <1>3, <1>5 DEF NoneAlive, NoCrash, Alive, taskVars
    <2> QED
        BY <1>1, <1>2, <1>3, <1>5, <2>1, <2>2, GivenUpKeeps
<1>6. CASE rtask' = r /\ UNCHANGED <<rst, taskVars>>
    <2>1. /\ UNCHANGED <<task, tst, rtask, rst, rwait, stopping, spc, swait, lock, want>>
          /\ ~NoRebuild
        BY <1>1, <1>3, <1>6 DEF taskVars, NoRebuild
    <2>2. CallersAreLocked' /\ LoopsAreHeld' /\ RebuildsAreHeld' /\ LiveIsWanted'
        BY <2>1 DEF SupervisorInv, CallersAreLocked, LoopsAreHeld, RebuildsAreHeld,
                    LiveIsWanted, Alive, RebuildAlive, NoRebuild
    <2>3. CrashedIsAlone' /\ ClosingIsAwaited' /\ DyingIsAwaited'
        BY <2>1 DEF SupervisorInv, CrashedIsAlone, ClosingIsAwaited, DyingIsAwaited,
                    NoneAlive, Alive, NoRebuild, NobodyStops
    <2>4. RebuildsAreWanted' /\ OffIsMarked' /\ OnIsCaredFor'
        BY <2>1 DEF SupervisorInv, RebuildsAreWanted, OffIsMarked, OnIsCaredFor,
                    NoneAlive, Alive, NoRebuild
    <2> QED
        BY <2>2, <2>3, <2>4 DEF SupervisorInv
<1> QED
    BY <1>2, <1>4, <1>5, <1>6 DEF RebuildFires, taskVars

LEMMA DiesKeeps ==
    ASSUME TypeOK, SupervisorInv, NEW r \in Rebuilds, RebuildDies(r)
    PROVE  SupervisorInv'
<1>1. /\ rst[r] = "dying"
      /\ UNCHANGED <<task, tst, rtask, rwait, stopping, spc, swait, lock, want>>
    BY DEF RebuildDies, taskVars, callVars
<1>2. want = "off" /\ NoneAlive /\ NoCrash
    BY <1>1, RebuildIsAlone DEF SupervisorInv, RebuildsAreWanted
<1>3. \A s \in Rebuilds : rst'[s] = "free"
    BY <1>1, RebuildIsAlone DEF RebuildDies, TypeOK
<1>4. CallersAreLocked' /\ LoopsAreHeld' /\ RebuildsAreHeld' /\ LiveIsWanted'
    BY <1>1, <1>2, <1>3 DEF SupervisorInv, CallersAreLocked, LoopsAreHeld,
                RebuildsAreHeld, LiveIsWanted, Alive, NoneAlive, RebuildAlive
<1>5. CrashedIsAlone' /\ ClosingIsAwaited' /\ DyingIsAwaited'
    BY <1>1, <1>2, <1>3 DEF CrashedIsAlone, ClosingIsAwaited, DyingIsAwaited,
                NoneAlive, Alive, NoCrash
<1>6. RebuildsAreWanted' /\ OffIsMarked' /\ OnIsCaredFor'
    BY <1>1, <1>2, <1>3 DEF SupervisorInv, RebuildsAreWanted, OffIsMarked,
                OnIsCaredFor, L3Steps
<1> QED
    BY <1>4, <1>5, <1>6 DEF SupervisorInv

(* What a rebuild leaves once the old loop is gone. *)
LEMMA ResourcesKeep ==
    ASSUME TypeOK, SupervisorInv, NEW r \in Rebuilds, rst[r] \in L3Steps, NoneAlive,
           ResourcesAndStart(r), UNCHANGED <<spc, want>>
    PROVE  SupervisorInv'
<1>1. want = "on" /\ NobodyStops' /\ NoCrash
    BY WantedIsNotStopped, RebuildIsAlone
    DEF SupervisorInv, RebuildsAreWanted, L3Steps, NobodyStops
<1>2. NoRebuild'
    BY RebuildIsAlone DEF ResourcesAndStart, L3Steps, NoRebuild, TypeOK
<1>3. CASE Spawn /\ stopping' = FALSE
    BY <1>1, <1>2, <1>3, SpawnedKeeps
<1>4. CASE gaveUp' /\ UNCHANGED tst
    BY <1>1, <1>2, <1>4, GivenUpKeeps DEF NoneAlive, NoCrash, Alive
<1> QED
    BY <1>3, <1>4 DEF ResourcesAndStart

(* A rebuild that has awaited itself goes on to reap the loop. *)
LEMMA RebuildReapKeeps ==
    ASSUME TypeOK, SupervisorInv, NEW r \in Rebuilds, rst[r] \in L3Steps,
           RebuildReap(r), UNCHANGED <<spc, swait, lock, want>>
    PROVE  SupervisorInv'
<1>1. CASE IsRunning
    <2>1. /\ task \in Tasks /\ Alive(task)
          /\ \A u \in Tasks : tst'[u] = IF u = task THEN "closing" ELSE tst[u]
          /\ \A s \in Rebuilds : rst'[s] = IF s = r THEN "reap" ELSE rst[s]
          /\ rwait'[r] = task
          /\ stopping' = TRUE
          /\ UNCHANGED <<task, spc, swait, lock, want>>
        BY <1>1 DEF RebuildReap, CancelTask, BeginStop, IsRunning, TypeOK
    <2>2. \A u \in Tasks : u # task => ~Alive(u) /\ ~Alive(u)'
        BY <2>1, AliveIsRunning DEF Alive
    <2>3. want = "on" /\ NobodyStops /\ NoCrash
        BY WantedIsNotStopped, RebuildIsAlone DEF SupervisorInv, RebuildsAreWanted, L3Steps
    <2>4. /\ NoCrash' /\ \A u \in Tasks : tst'[u] # "live"
          /\ \A s \in Rebuilds : rst'[s] = IF s = r THEN "reap" ELSE "free"
        BY <2>1, <2>2, <2>3, RebuildIsAlone DEF NoCrash, Alive, L3Steps
    <2>5. CallersAreLocked' /\ LoopsAreHeld' /\ RebuildsAreHeld' /\ LiveIsWanted'
        BY <2>1, <2>2, <2>3, <2>4 DEF CallersAreLocked, LoopsAreHeld, RebuildsAreHeld,
                LiveIsWanted, RebuildAlive, NobodyStops
    <2>6. CrashedIsAlone' /\ ClosingIsAwaited' /\ DyingIsAwaited'
        BY <2>1, <2>2, <2>4 DEF CrashedIsAlone, ClosingIsAwaited, DyingIsAwaited,
                Alive, NoCrash
    <2>7. RebuildsAreWanted' /\ OffIsMarked' /\ OnIsCaredFor'
        BY <2>1, <2>3, <2>4 DEF RebuildsAreWanted, OffIsMarked, OnIsCaredFor, L3Steps, NoRebuild
    <2> QED
        BY <2>5, <2>6, <2>7 DEF SupervisorInv
<1>2. CASE ~IsRunning
    BY <1>2, NotRunningIsNoneAlive, ResourcesKeep DEF RebuildReap
<1> QED
    BY <1>1, <1>2

LEMMA BeginsKeeps ==
    ASSUME TypeOK, SupervisorInv, NEW r \in Rebuilds, RebuildBegins(r)
    PROVE  SupervisorInv'
<1>1. /\ rst[r] = "new" /\ rtask = r
      /\ UNCHANGED <<rtask, spc, swait, lock, want>>
    BY DEF RebuildBegins, SupervisorInv, RebuildsAreHeld, callVars
<1>2. RebuildPending
    BY <1>1 DEF RebuildPending, RebuildAlive, Rebuilds, None
<1>3. /\ stopping' = TRUE /\ UNCHANGED <<task, tst>>
      /\ \A s \in Rebuilds : rst'[s] = IF s = r THEN "await" ELSE rst[s]
    BY <1>1, <1>2 DEF RebuildBegins, BeginStop, TypeOK, taskVars
<1>4. /\ want = "on" /\ NobodyStops /\ NoCrash
      /\ \A t \in Tasks : tst[t] # "live"
      /\ \A s \in Rebuilds : rst'[s] = IF s = r THEN "await" ELSE "free"
    BY <1>1, <1>3, WantedIsNotStopped, RebuildIsAlone
    DEF SupervisorInv, RebuildsAreWanted, L3Steps
<1>5. CallersAreLocked' /\ LoopsAreHeld' /\ RebuildsAreHeld' /\ LiveIsWanted'
    BY <1>1, <1>3, <1>4 DEF SupervisorInv, CallersAreLocked, LoopsAreHeld, RebuildsAreHeld,
                LiveIsWanted, RebuildAlive, NobodyStops, Alive
<1>6. CrashedIsAlone' /\ ClosingIsAwaited' /\ DyingIsAwaited'
    BY <1>3, <1>4 DEF CrashedIsAlone, ClosingIsAwaited, DyingIsAwaited, NoCrash
<1>7. RebuildsAreWanted' /\ OffIsMarked' /\ OnIsCaredFor'
    BY <1>1, <1>4 DEF RebuildsAreWanted, OffIsMarked, OnIsCaredFor, L3Steps, NoRebuild
<1> QED
    BY <1>5, <1>6, <1>7 DEF SupervisorInv

LEMMA ReapedKeeps ==
    ASSUME TypeOK, SupervisorInv, NEW r \in Rebuilds, RebuildReaped(r)
    PROVE  SupervisorInv'
<1>1. rst[r] = "reap" /\ tst[rwait[r]] = "free"
    BY DEF RebuildReaped
<1>2. /\ \A s \in Rebuilds : rst[s] # "free" => s = r
      /\ \A t \in Tasks : tst[t] # "live"
      /\ NobodyStops
    BY <1>1, RebuildIsAlone, WantedIsNotStopped
    DEF SupervisorInv, RebuildsAreWanted, L3Steps
<1>3. NoneAlive
    BY <1>1, <1>2 DEF SupervisorInv, ClosingIsAwaited, NobodyStops, NoneAlive, Alive
<1> QED
    BY <1>1, <1>3, ResourcesKeep DEF RebuildReaped, L3Steps, callVars


LEMMA RebuildKeeps ==
    ASSUME TypeOK, SupervisorInv, NEW r \in Rebuilds, RebuildStep(r)
    PROVE  SupervisorInv'
<1>1. ASSUME RebuildContinues(r) PROVE SupervisorInv'
    BY <1>1, RebuildReapKeeps DEF RebuildContinues, L3Steps, callVars
<1> QED
    BY <1>1, FiresKeeps, DiesKeeps, BeginsKeeps, ReapedKeeps DEF RebuildStep

LEMMA LoopKeeps ==
    ASSUME TypeOK, SupervisorInv, NEW t \in Tasks, LoopStep(t)
    PROVE  SupervisorInv'
BY CrashKeeps, EndKeeps, DoneKeeps, RequestKeeps DEF LoopStep

(* stop() from request_stop on, for a device that is not wanted. *)
LEMMA CallReapKeeps ==
    ASSUME TypeOK, SupervisorInv, NEW c \in Callers, NEW held \in SUBSET Callers,
           CallReap(c, held), NoRebuild, NoCrash \/ NoneAlive,
           held = {c}, lock \subseteq {c}, \A d \in Callers : d # c => spc[d] = "idle",
           want' = "off", stopping' = TRUE, NoRebuild'
    PROVE  SupervisorInv'
<1>1. CASE IsRunning
    <2>1. /\ task \in Tasks /\ Alive(task)
          /\ \A u \in Tasks : tst'[u] = IF u = task THEN "closing" ELSE tst[u]
          /\ \A d \in Callers : spc'[d] = IF d = c THEN "reap" ELSE spc[d]
          /\ swait'[c] = task
          /\ lock' = {c} /\ UNCHANGED task
        BY <1>1 DEF CallReap, CancelTask, IsRunning, TypeOK
    <2>2. \A u \in Tasks : u # task => ~Alive(u) /\ ~Alive(u)'
        BY <2>1, AliveIsRunning DEF Alive
    <2>3. NoCrash' /\ \A u \in Tasks : tst'[u] # "live"
        BY <2>1, <2>2 DEF NoCrash, NoneAlive, Alive
    <2>4. CallersAreLocked' /\ LoopsAreHeld' /\ RebuildsAreHeld' /\ LiveIsWanted'
        BY <2>1, <2>2, <2>3 DEF CallersAreLocked, LoopsAreHeld, RebuildsAreHeld,
                LiveIsWanted, RebuildAlive, NoRebuild
    <2>5. CrashedIsAlone' /\ ClosingIsAwaited' /\ DyingIsAwaited'
        BY <2>1, <2>2, <2>3 DEF CrashedIsAlone, ClosingIsAwaited, DyingIsAwaited,
                Alive, NoCrash, NoRebuild
    <2>6. RebuildsAreWanted' /\ OffIsMarked' /\ OnIsCaredFor'
        BY DEF RebuildsAreWanted, OffIsMarked, OnIsCaredFor, L3Steps, NoRebuild
    <2> QED
        BY <2>4, <2>5, <2>6 DEF SupervisorInv
<1>2. CASE ~IsRunning
    <2>1. /\ NoneAlive /\ UNCHANGED tst
          /\ \A d \in Callers : spc'[d] = IF d = c THEN "idle" ELSE spc[d]
        BY <1>2, NotRunningIsNoneAlive DEF CallReap, TypeOK
    <2>2. NoneAlive' /\ NobodyStops'
        BY <2>1 DEF NoneAlive, NobodyStops, Alive
    <2>3. CallersAreLocked' /\ LoopsAreHeld' /\ RebuildsAreHeld' /\ LiveIsWanted'
        BY <2>2 DEF CallersAreLocked, LoopsAreHeld, RebuildsAreHeld,
                LiveIsWanted, RebuildAlive, NoRebuild, NoneAlive, NobodyStops, Alive
    <2>4. CrashedIsAlone'
        BY <2>1, <2>2 DEF SupervisorInv, CrashedIsAlone
    <2>5. ClosingIsAwaited' /\ DyingIsAwaited'
        BY <2>2 DEF ClosingIsAwaited, DyingIsAwaited, NoneAlive, Alive, NoRebuild
    <2>6. RebuildsAreWanted' /\ OffIsMarked' /\ OnIsCaredFor'
        BY DEF RebuildsAreWanted, OffIsMarked, OnIsCaredFor, L3Steps, NoRebuild
    <2> QED
        BY <2>3, <2>4, <2>5, <2>6 DEF SupervisorInv
<1> QED
    BY <1>1, <1>2

LEMMA CallerKeeps ==
    ASSUME TypeOK, SupervisorInv, NEW c \in Callers, CallerStep(c)
    PROVE  SupervisorInv'
<1>1. /\ spc[c] # "idle" /\ UNCHANGED <<rst, rwait, stopping, want>>
    BY DEF CallerStep, StopAfterRebuild, StopReaped, rebuildVars
<1>2. /\ lock = {c} /\ want = "off" /\ stopping /\ NoCrash
      /\ \A d \in Callers : d # c => spc[d] = "idle"
      /\ \A t \in Tasks : tst[t] # "live"
      /\ \A r \in Rebuilds : rst[r] \in {"free", "dying"}
    BY <1>1 DEF SupervisorInv, CallersAreLocked, CrashedIsAlone, NobodyStops, NoCrash,
                OffIsMarked, LiveIsWanted, RebuildsAreWanted, L3Steps, TypeOK
<1>3. CASE StopAfterRebuild(c)
    <2>1. NoRebuild
        BY <1>2, <1>3 DEF StopAfterRebuild, SupervisorInv, DyingIsAwaited, NoRebuild
    <2>2. /\ lock \in SUBSET Callers /\ CallReap(c, lock) /\ NoRebuild' /\ stopping' = TRUE
        BY <1>1, <1>2, <1>3, <2>1 DEF StopAfterRebuild, NoRebuild, TypeOK
    <2> QED
        BY <1>1, <1>2, <2>1, <2>2, CallReapKeeps
<1>4. CASE StopReaped(c)
    <2>1. NoneAlive /\ NoRebuild
        BY <1>2, <1>4 DEF StopReaped, SupervisorInv, ClosingIsAwaited, DyingIsAwaited,
                          NoneAlive, Alive, NoRebuild
    <2>2. /\ NoneAlive' /\ NoRebuild' /\ NoCrash' /\ NobodyStops'
        BY <1>1, <1>2, <1>4, <2>1 DEF StopReaped, NoneAlive, NoRebuild, NoCrash,
                          NobodyStops, Alive, TypeOK
    <2>3. CallersAreLocked' /\ LoopsAreHeld' /\ RebuildsAreHeld' /\ LiveIsWanted'
        BY <2>2 DEF CallersAreLocked, LoopsAreHeld, RebuildsAreHeld,
                LiveIsWanted, RebuildAlive, NoRebuild, NoneAlive, NobodyStops, Alive
    <2>4. CrashedIsAlone' /\ ClosingIsAwaited' /\ DyingIsAwaited'
        BY <2>2 DEF CrashedIsAlone, ClosingIsAwaited, DyingIsAwaited, NoneAlive, Alive,
                NoRebuild, NoCrash
    <2>5. RebuildsAreWanted' /\ OffIsMarked' /\ OnIsCaredFor'
        BY <1>1, <1>2, <2>2 DEF RebuildsAreWanted, OffIsMarked, OnIsCaredFor, L3Steps, NoRebuild
    <2> QED
        BY <2>3, <2>4, <2>5 DEF SupervisorInv
<1> QED
    BY <1>3, <1>4 DEF CallerStep

LEMMA EnableKeeps ==
    ASSUME TypeOK, SupervisorInv, Locked, NEW locked \in BOOLEAN, Enable(locked)
    PROVE  SupervisorInv'
<1>1. /\ locked /\ lock = {} /\ ~RebuildDue /\ want' = "on"
      /\ UNCHANGED <<rtask, rst, rwait, spc, swait, lock>>
    BY DEF Enable, Locked, rebuildVars, callVars
<1>2. NobodyStops /\ NobodyStops' /\ NoRebuild /\ NoRebuild' /\ NoCrash
    BY <1>1 DEF RebuildDue, RebuildAlive, NoRebuild, NoCrash, NobodyStops,
                SupervisorInv, CallersAreLocked
<1>3. CASE IsRunning
    <2>1. task \in Tasks /\ Alive(task)
        BY <1>3 DEF IsRunning, TypeOK
    <2>2. tst[task] = "live"
        BY <1>2, <2>1 DEF SupervisorInv, ClosingIsAwaited, NobodyStops, NoRebuild, Alive
    <2>3. want = "on"
        BY <2>1, <2>2 DEF SupervisorInv, LiveIsWanted
    <2>4. UNCHANGED <<task, tst, stopping, gaveUp, want>>
        BY <1>1, <1>3, <2>3 DEF Enable, taskVars
    <2>5. CallersAreLocked' /\ LoopsAreHeld' /\ RebuildsAreHeld' /\ LiveIsWanted'
        BY <1>1, <2>4 DEF SupervisorInv, CallersAreLocked, LoopsAreHeld, RebuildsAreHeld,
                    LiveIsWanted, Alive, RebuildAlive, NoRebuild
    <2>6. CrashedIsAlone' /\ ClosingIsAwaited' /\ DyingIsAwaited'
        BY <1>1, <2>4 DEF SupervisorInv, CrashedIsAlone, ClosingIsAwaited, DyingIsAwaited,
                    NoneAlive, Alive, NoRebuild, NobodyStops
    <2>7. RebuildsAreWanted' /\ OffIsMarked' /\ OnIsCaredFor'
        BY <1>1, <2>4 DEF SupervisorInv, RebuildsAreWanted, OffIsMarked, OnIsCaredFor,
                    NoneAlive, Alive, NoRebuild
    <2> QED
        BY <2>5, <2>6, <2>7 DEF SupervisorInv
<1>4. CASE ~IsRunning
    <2>1. Spawn /\ stopping' = FALSE
        BY <1>4 DEF Enable, Start
    <2> QED
        BY <1>1, <1>2, <1>4, <2>1, NotRunningIsNoneAlive, SpawnedKeeps
<1> QED
    BY <1>3, <1>4

LEMMA DisableKeeps ==
    ASSUME TypeOK, SupervisorInv, Locked, NEW locked \in BOOLEAN,
           NEW c \in Callers, Disable(c, locked)
    PROVE  SupervisorInv'
<1>1. /\ locked /\ lock = {} /\ ~L3Running /\ want' = "off" /\ stopping' = TRUE
      /\ UNCHANGED <<rtask, rwait, gaveUp>>
    BY DEF Disable, Locked, BeginStop
<1>2. /\ NobodyStops
      /\ \A r \in Rebuilds : rst[r] \in {"free", "delay", "dying"}
    BY <1>1 DEF NobodyStops, SupervisorInv, CallersAreLocked, L3Running, TypeOK
<1>3. CASE RebuildPending
    <2>1. rtask \in Rebuilds /\ rst[rtask] \in {"delay", "dying"}
        BY <1>2, <1>3 DEF RebuildPending, RebuildAlive, TypeOK
    <2>2. NoneAlive /\ NoCrash
        BY <2>1, RebuildIsAlone DEF SupervisorInv, RebuildsAreWanted
    <2>3. /\ \A r \in Rebuilds : rst'[r] = IF r = rtask THEN "dying" ELSE "free"
          /\ \A d \in Callers : spc'[d] = IF d = c THEN "rebuild" ELSE "idle"
          /\ swait'[c] = rtask /\ lock' = {c}
          /\ UNCHANGED <<task, tst>>
        BY <1>1, <1>2, <1>3, <2>1, RebuildIsAlone
        DEF Disable, Cancelled, NobodyStops, TypeOK, taskVars
    <2>4. NoneAlive' /\ NoCrash'
        BY <2>2, <2>3 DEF NoneAlive, NoCrash, Alive
    <2>5. CallersAreLocked' /\ LoopsAreHeld' /\ RebuildsAreHeld' /\ LiveIsWanted'
        BY <1>1, <2>3, <2>4 DEF CallersAreLocked, LoopsAreHeld, RebuildsAreHeld,
                LiveIsWanted, RebuildAlive, NoneAlive, Alive
    <2>6. CrashedIsAlone' /\ ClosingIsAwaited' /\ DyingIsAwaited'
        BY <2>3, <2>4 DEF CrashedIsAlone, ClosingIsAwaited, DyingIsAwaited, NoneAlive,
                Alive, NoCrash
    <2>7. RebuildsAreWanted' /\ OffIsMarked' /\ OnIsCaredFor'
        BY <1>1, <2>3, <2>4 DEF RebuildsAreWanted, OffIsMarked, OnIsCaredFor, L3Steps
    <2> QED
        BY <2>5, <2>6, <2>7 DEF SupervisorInv
<1>4. CASE ~RebuildPending
    <2>1. NoRebuild
        BY <1>2, <1>4 DEF SupervisorInv, RebuildsAreHeld, RebuildPending, RebuildAlive,
                          NoRebuild, Rebuilds, None
    <2>2. CallReap(c, {c}) /\ UNCHANGED rst /\ {c} \in SUBSET Callers
        BY <1>1, <1>4 DEF Disable
    <2>3. NoRebuild' /\ (NoCrash \/ NoneAlive) /\ lock \subseteq {c}
        BY <1>1, <2>1, <2>2 DEF NoRebuild, SupervisorInv, CrashedIsAlone, NoCrash
    <2>4. \A d \in Callers : d # c => spc[d] = "idle"
        BY <1>2 DEF NobodyStops
    <2> QED
        BY <1>1, <2>1, <2>2, <2>3, <2>4, CallReapKeeps
<1> QED
    BY <1>3, <1>4

LEMMA SupervisorStep ==
    ASSUME Locked, TypeOK, SupervisorInv, Next
    PROVE  SupervisorInv'
<1>1. CASE Command
    BY <1>1, EnableKeeps, DisableKeeps DEF Command
<1> QED
    BY <1>1, LoopKeeps, RebuildKeeps, CallerKeeps DEF Next


-----------------------------------------------------------------------------
(* What the invariant with the lock says of the device.                    *)

LEMMA InvHoldsLoop ==
    ASSUME SupervisorInv
    PROVE  OneLoop /\ LoopIsHeld
<1>1. Loops \subseteq {task}
    BY AliveIsRunning DEF Loops
<1>2. Loops = {} \/ Loops = {task}
    BY <1>1
<1>3. OneLoop
    BY <1>2, FS_EmptySet, FS_Singleton DEF OneLoop
<1>4. LoopIsHeld
    BY <1>1 DEF LoopIsHeld
<1> QED
    BY <1>3, <1>4

LEMMA InvSticks ==
    ASSUME SupervisorInv, Quiet
    PROVE  StopSticks /\ StartSticks
<1>1. NoRebuild /\ NobodyStops
    BY DEF Quiet, NoRebuild, NobodyStops
<1>2. \A t \in Tasks : tst[t] # "closing"
    BY <1>1 DEF SupervisorInv, ClosingIsAwaited, NoRebuild, NobodyStops
<1>3. StopSticks
    BY <1>2 DEF StopSticks, Loops, Alive, SupervisorInv, LiveIsWanted
<1>4. StartSticks
    BY <1>1 DEF StartSticks, Loops, NoneAlive, SupervisorInv, OnIsCaredFor
<1> QED
    BY <1>3, <1>4

(* No step of a device that stays unwanted adds a loop. *)
LEMMA NobodyRevives ==
    ASSUME TypeOK, SupervisorInv, Next, want = "off", want' = "off"
    PROVE  Loops' \subseteq Loops
<1>1. ASSUME NEW t \in Tasks, LoopStep(t) PROVE Loops' \subseteq Loops
    <2>1. \A u \in Tasks : u # t => tst'[u] = tst[u]
        BY <1>1 DEF LoopStep, LoopCrash, LoopEnds, OnDone, RequestL3, TypeOK
    <2>2. Alive(t)' => Alive(t)
        BY <1>1 DEF LoopStep, LoopCrash, LoopEnds, OnDone, RequestL3, TypeOK, Alive
    <2> QED
        BY <2>1, <2>2 DEF Loops, Alive
<1>2. ASSUME NEW r \in Rebuilds, RebuildStep(r) PROVE Loops' \subseteq Loops
    <2>1. rst[r] \in {"free", "dying"}
        BY DEF SupervisorInv, RebuildsAreWanted, L3Steps, TypeOK
    <2>2. RebuildDies(r)
        BY <1>2, <2>1 DEF RebuildStep, RebuildFires, RebuildBegins, RebuildContinues,
                          RebuildReaped
    <2> QED
        BY <2>2 DEF RebuildDies, Loops, Alive, taskVars
<1>3. ASSUME NEW c \in Callers, NEW held, CallReap(c, held) PROVE Loops' \subseteq Loops
    BY <1>3 DEF CallReap, CancelTask, IsRunning, Alive, Loops, TypeOK
<1>4. ASSUME NEW c \in Callers, CallerStep(c) PROVE Loops' \subseteq Loops
    BY <1>4, <1>3 DEF CallerStep, StopAfterRebuild, StopReaped, Loops, Alive
<1>5. ASSUME Command PROVE Loops' \subseteq Loops
    <2>1. PICK locked \in BOOLEAN : \E c \in Callers : Disable(c, locked)
        BY <1>5 DEF Command, Enable
    <2>2. PICK c \in Callers : UNCHANGED taskVars \/ \E held : CallReap(c, held)
        BY <2>1 DEF Disable
    <2> QED
        BY <2>2, <1>3 DEF Loops, Alive, taskVars
<1> QED
    BY <1>1, <1>2, <1>4, <1>5 DEF Next


-----------------------------------------------------------------------------
(* Without the lock: types and mark.  No rebuild is ever past its delay.   *)

UnlockedTypes == U!TypeOK /\ UnlockedInv

LEMMA UnlockedNew ==
    /\ U!FreeTasks # {} => U!NewTask \in U!Tasks
    /\ U!FreeRebuilds # {} => U!NewRebuild \in U!Rebuilds
BY DEF U!NewTask, U!FreeTasks, U!NewRebuild, U!FreeRebuilds

LEMMA UnlockedStart == U!Init => UnlockedTypes
<1> SUFFICES ASSUME U!Init PROVE UnlockedTypes
    OBVIOUS
<1>1. 1 \in U!Tasks
    BY SupervisorAssumption DEF U!Tasks
<1>2. /\ tst \in [U!Tasks -> {"free", "live", "closing", "crashed", "quiet"}]
      /\ rst \in [U!Rebuilds -> {"free", "new", "await", "reap", "delay", "dying"}]
      /\ spc \in [{c1, c2} -> {"idle", "rebuild", "reap"}]
    BY DEF U!Init
<1>3. /\ rwait \in [U!Rebuilds -> U!Tasks \cup U!Rebuilds \cup {U!None}]
      /\ swait \in [{c1, c2} -> U!Tasks \cup U!Rebuilds \cup {U!None}]
    BY DEF U!Init
<1>4. /\ task \in U!Tasks \cup {U!None} /\ rtask \in U!Rebuilds \cup {U!None}
      /\ rebuilds \in 0 .. 1
    BY <1>1 DEF U!Init
<1>6. stopping \in BOOLEAN /\ gaveUp \in BOOLEAN /\ want \in {"on", "off"}
    BY DEF U!Init
<1>7. lock \in SUBSET {c1, c2}
    BY DEF U!Init
<1>5. UnlockedInv
    BY DEF U!Init, UnlockedInv
<1> QED
    BY <1>2, <1>3, <1>4, <1>5, <1>6, <1>7 DEF U!TypeOK, UnlockedTypes

LEMMA UnlockedLoop ==
    ASSUME UnlockedTypes, NEW t \in U!Tasks, U!LoopStep(t)
    PROVE  UnlockedTypes' /\ U!Loops' \subseteq U!Loops
<1>1. CASE U!LoopCrash(t)
    BY <1>1 DEF U!LoopCrash, U!TypeOK, UnlockedTypes, UnlockedInv, U!rebuildVars,
                U!callVars, U!Loops, U!Alive
<1>2. CASE U!LoopEnds(t)
    BY <1>2 DEF U!LoopEnds, U!TypeOK, UnlockedTypes, UnlockedInv, U!rebuildVars,
                U!callVars, U!Loops, U!Alive
<1>3. CASE U!OnDone(t)
    <2>1. /\ tst' \in [U!Tasks -> {"free", "live", "closing", "crashed", "quiet"}]
          /\ UNCHANGED <<task, stopping, spc, swait, lock, want>>
          /\ U!Loops' \subseteq U!Loops
        BY <1>3 DEF U!OnDone, U!TypeOK, UnlockedTypes, U!callVars, U!Loops, U!Alive
    <2>2. CASE UNCHANGED <<rebuilds, rtask, rst, rwait>> /\ gaveUp' \in BOOLEAN
        BY <2>1, <2>2 DEF U!TypeOK, UnlockedTypes, UnlockedInv
    <2>3. CASE U!ScheduleRebuild /\ ~U!AtCap
        <3>1. rebuilds + 1 \in 0 .. 1
            BY <2>3 DEF U!AtCap, U!TypeOK, UnlockedTypes
        <3> QED
            BY <2>1, <2>3, <3>1, UnlockedNew
            DEF U!ScheduleRebuild, U!TypeOK, UnlockedTypes, UnlockedInv
    <2>4. (UNCHANGED <<rebuilds, rtask, rst, rwait>> /\ gaveUp' \in BOOLEAN)
          \/ (U!ScheduleRebuild /\ ~U!AtCap)
        BY <1>3, Zenon DEF U!OnDone, U!ScheduleRebuild, U!TypeOK, UnlockedTypes, U!rebuildVars
    <2> QED
        BY <2>2, <2>3, <2>4, <2>1
<1>4. ~U!RequestL3(t)
    BY DEF U!RequestL3
<1> QED
    BY <1>1, <1>2, <1>3, <1>4 DEF U!LoopStep

LEMMA UnlockedRebuild ==
    ASSUME UnlockedTypes, NEW r \in U!Rebuilds, U!RebuildStep(r)
    PROVE  UnlockedTypes' /\ (want = "off" => U!Loops' \subseteq U!Loops)
<1>1. U!RebuildFires(r) \/ U!RebuildDies(r)
    BY DEF U!RebuildStep, U!RebuildBegins, U!RebuildContinues, U!RebuildReaped,
           UnlockedTypes, UnlockedInv
<1>2. CASE U!RebuildFires(r)
    <2>1. UNCHANGED <<rwait, stopping, spc, swait, lock, want>>
        BY <1>2 DEF U!RebuildFires, U!callVars
    <2>2. CASE rst' = [rst EXCEPT ![r] = "free"] /\ UNCHANGED <<task, tst, rtask, rebuilds>>
               /\ gaveUp' \in BOOLEAN
        BY <2>1, <2>2 DEF U!TypeOK, UnlockedTypes, UnlockedInv, U!Loops, U!Alive
    <2>3. CASE rst' = [rst EXCEPT ![r] = "free"] /\ U!Spawn /\ ~stopping
               /\ UNCHANGED <<rtask, rebuilds>>
        BY <2>1, <2>3, UnlockedNew DEF U!Spawn, U!TypeOK, UnlockedTypes, UnlockedInv
    <2>4. CASE ~U!AtCap /\ rebuilds' = rebuilds + 1 /\ rtask' = r
               /\ UNCHANGED <<rst, gaveUp, task, tst>>
        <3>1. rebuilds' \in 0 .. 1
            BY <2>4 DEF U!AtCap, U!TypeOK, UnlockedTypes
        <3> QED
            BY <2>1, <2>4, <3>1 DEF U!TypeOK, UnlockedTypes, UnlockedInv, U!Loops, U!Alive
    <2> QED
        BY <1>2, <2>2, <2>3, <2>4, Zenon
        DEF U!RebuildFires, U!taskVars, U!TypeOK, UnlockedTypes
<1>3. CASE U!RebuildDies(r)
    BY <1>3 DEF U!RebuildDies, U!taskVars, U!callVars, U!TypeOK, UnlockedTypes,
                UnlockedInv, U!Loops, U!Alive
<1> QED
    BY <1>1, <1>2, <1>3

LEMMA UnlockedReap ==
    ASSUME UnlockedTypes, NEW c \in {c1, c2}, NEW held \in SUBSET {c1, c2},
           U!CallReap(c, held)
    PROVE  /\ task' \in U!Tasks \cup {U!None}
           /\ tst' \in [U!Tasks -> {"free", "live", "closing", "crashed", "quiet"}]
           /\ spc' \in [{c1, c2} -> {"idle", "rebuild", "reap"}]
           /\ swait' \in [{c1, c2} -> U!Tasks \cup U!Rebuilds \cup {U!None}]
           /\ lock' \in SUBSET {c1, c2}
           /\ U!Loops' \subseteq U!Loops
BY DEF U!CallReap, U!IsRunning, U!CancelTask, U!TypeOK, UnlockedTypes, U!Loops, U!Alive

LEMMA UnlockedCaller ==
    ASSUME UnlockedTypes, NEW c \in {c1, c2}, U!CallerStep(c)
    PROVE  UnlockedTypes' /\ U!Loops' \subseteq U!Loops
<1>1. CASE U!StopAfterRebuild(c)
    <2>1. U!CallReap(c, lock) /\ lock \in SUBSET {c1, c2} /\ rtask' = U!None
          /\ UNCHANGED <<rst, rwait, stopping, rebuilds, want, gaveUp>>
        BY <1>1 DEF U!StopAfterRebuild, U!TypeOK, UnlockedTypes
    <2> QED
        BY <2>1, UnlockedReap DEF U!TypeOK, UnlockedTypes, UnlockedInv
<1>2. CASE U!StopReaped(c)
    BY <1>2 DEF U!StopReaped, U!rebuildVars, U!TypeOK, UnlockedTypes, UnlockedInv,
                U!Loops, U!Alive
<1> QED
    BY <1>1, <1>2 DEF U!CallerStep

LEMMA UnlockedCommand ==
    ASSUME UnlockedTypes, U!Command
    PROVE  UnlockedTypes' /\ (want' = "off" => U!Loops' \subseteq U!Loops)
<1>1. PICK locked \in BOOLEAN : U!Enable(locked) \/ \E c \in {c1, c2} : U!Disable(c, locked)
    BY DEF U!Command
<1>2. CASE U!Enable(locked)
    BY <1>2, UnlockedNew
    DEF U!Enable, U!Start, U!Spawn, U!TypeOK, UnlockedTypes, UnlockedInv, U!taskVars,
        U!rebuildVars, U!callVars
<1>3. ASSUME NEW c \in {c1, c2}, U!Disable(c, locked)
      PROVE  UnlockedTypes' /\ U!Loops' \subseteq U!Loops
    <2>1. PICK held \in SUBSET {c1, c2} :
              \/ /\ U!RebuildPending
                 /\ rst' = [rst EXCEPT ![rtask] = U!Cancelled(rtask)]
                 /\ spc' = [spc EXCEPT ![c] = "rebuild"]
                 /\ swait' = [swait EXCEPT ![c] = rtask]
                 /\ lock' = held
                 /\ UNCHANGED <<task, tst>>
              \/ U!CallReap(c, held) /\ UNCHANGED rst
        <3> DEFINE held == IF locked THEN {c} ELSE lock
        <3>1. held \in SUBSET {c1, c2}
            BY DEF U!TypeOK, UnlockedTypes
        <3>2. \/ /\ U!RebuildPending
                 /\ rst' = [rst EXCEPT ![rtask] = U!Cancelled(rtask)]
                 /\ spc' = [spc EXCEPT ![c] = "rebuild"]
                 /\ swait' = [swait EXCEPT ![c] = rtask]
                 /\ lock' = held
                 /\ UNCHANGED <<task, tst>>
              \/ U!CallReap(c, held) /\ UNCHANGED rst
            BY <1>3 DEF U!Disable, U!taskVars
        <3> HIDE DEF held
        <3> QED
            BY <3>1, <3>2
    <2>2. want' = "off" /\ stopping' = TRUE /\ UNCHANGED <<rtask, rwait, rebuilds, gaveUp>>
        BY <1>3 DEF U!Disable, U!BeginStop
    <2>3. CASE U!CallReap(c, held) /\ UNCHANGED rst
        BY <2>2, <2>3, UnlockedReap DEF U!TypeOK, UnlockedTypes, UnlockedInv
    <2>4. CASE /\ U!RebuildPending
               /\ rst' = [rst EXCEPT ![rtask] = U!Cancelled(rtask)]
               /\ spc' = [spc EXCEPT ![c] = "rebuild"]
               /\ swait' = [swait EXCEPT ![c] = rtask]
               /\ lock' = held
               /\ UNCHANGED <<task, tst>>
        BY <2>2, <2>4 DEF U!RebuildPending, U!Cancelled, U!TypeOK, UnlockedTypes,
                          UnlockedInv, U!Loops, U!Alive
    <2> QED
        BY <2>1, <2>3, <2>4
<1> QED
    BY <1>1, <1>2, <1>3 DEF U!Enable

LEMMA UnlockedStep ==
    ASSUME UnlockedTypes, U!Next
    PROVE  UnlockedTypes' /\ (want = "off" /\ want' = "off" => U!Loops' \subseteq U!Loops)
BY UnlockedLoop, UnlockedRebuild, UnlockedCaller, UnlockedCommand DEF U!Next


-----------------------------------------------------------------------------
(* Both environments together.                                             *)

MCInv ==
    /\ locking \in BOOLEAN
    /\ IF locking THEN TypeOK /\ (Locked => SupervisorInv) ELSE UnlockedTypes

MCNext == LockingNext \/ UnlockedNext
mcVars == <<vars, locking>>

LEMMA MCStart == locking \in BOOLEAN /\ (IF locking THEN Init ELSE U!Init) => MCInv
BY TypesStart, SupervisorStart, UnlockedStart DEF MCInv

LEMMA MCStep ==
    ASSUME MCInv, [MCNext]_mcVars
    PROVE  MCInv'
<1>1. CASE LockingNext
    <2>1. TypeOK' /\ (Locked => SupervisorInv')
        BY <1>1, TypesStep, SupervisorStep DEF LockingNext, MCInv
    <2>2. locking /\ locking' = locking
        BY <1>1 DEF LockingNext
    <2> QED
        BY <2>1, <2>2, Zenon DEF MCInv, Locked
<1>2. CASE UnlockedNext
    BY <1>2, UnlockedStep DEF UnlockedNext, MCInv
<1>3. CASE UNCHANGED mcVars
    <2>1. /\ UNCHANGED <<task, tst, rtask, rst, rwait, stopping, rebuilds, spc, swait,
                         lock, want, gaveUp, locking>>
        BY <1>3 DEF mcVars, vars, taskVars, rebuildVars, callVars
    <2>2. TypeOK' = TypeOK /\ UnlockedTypes' = UnlockedTypes
        BY <2>1, Zenon DEF TypeOK, UnlockedTypes, U!TypeOK, UnlockedInv
    <2>3. /\ CallersAreLocked' = CallersAreLocked /\ LoopsAreHeld' = LoopsAreHeld
          /\ RebuildsAreHeld' = RebuildsAreHeld /\ LiveIsWanted' = LiveIsWanted
        BY <2>1, Zenon DEF CallersAreLocked, LoopsAreHeld, RebuildsAreHeld, LiveIsWanted,
            NoRebuild, Alive, RebuildAlive
    <2>4. /\ CrashedIsAlone' = CrashedIsAlone /\ ClosingIsAwaited' = ClosingIsAwaited
          /\ DyingIsAwaited' = DyingIsAwaited
        <3>1. NoneAlive' = NoneAlive /\ NoRebuild' = NoRebuild
            BY <2>1, Zenon DEF NoneAlive, NoRebuild, Alive
        <3>2. NobodyStops' = NobodyStops
            BY <2>1, Zenon DEF NobodyStops
        <3>3. CrashedIsAlone' = CrashedIsAlone
            BY <2>1, <3>1, <3>2, Zenon DEF CrashedIsAlone
        <3>4. ClosingIsAwaited' = ClosingIsAwaited
            BY <2>1, Zenon DEF ClosingIsAwaited
        <3>5. DyingIsAwaited' = DyingIsAwaited
            BY <2>1, Zenon DEF DyingIsAwaited
        <3> QED
            BY <3>3, <3>4, <3>5
    <2>5. /\ RebuildsAreWanted' = RebuildsAreWanted /\ OffIsMarked' = OffIsMarked
          /\ OnIsCaredFor' = OnIsCaredFor
        BY <2>1, Zenon DEF RebuildsAreWanted, OffIsMarked, OnIsCaredFor, NoneAlive,
            NoRebuild, Alive
    <2>6. SupervisorInv' = SupervisorInv
        BY <2>3, <2>4, <2>5, Zenon DEF SupervisorInv
    <2> QED
        BY <2>1, <2>2, <2>6, Zenon DEF MCInv, Locked
<1> QED
    BY <1>1, <1>2, <1>3 DEF MCNext

LEMMA MCInvariant == MCSpec => []MCInv
BY MCStart, MCStep, PTL DEF MCSpec, MCNext, mcVars

-----------------------------------------------------------------------------
(* The variables of a supervisor have their types, whatever the            *)
(* environment shows: tasks, rebuilds and callers name what exists, and    *)
(* the rebuilds never pass MAX_REBUILDS.                                   *)
THEOREM SupervisorTypes == MCSpec => []TypesOK
<1>1. MCInv => TypesOK
    BY DEF MCInv, TypesOK, UnlockedTypes
<1> QED
    BY <1>1, MCInvariant, PTL

(* For any number of commands, tasks and rebuilds: when every command      *)
(* takes _start_lock and none interrupts a rebuild, a device never has two *)
(* BLE loops, and self._task is the one it has, so stop() can reap it.     *)
THEOREM LoopIsAlwaysHeld ==
    ASSUME Locked
    PROVE  MCSpec => []LoopIsHeldLocking
<1>1. MCInv => LoopIsHeldLocking
    BY InvHoldsLoop DEF MCInv, LoopIsHeldLocking
<1> QED
    BY <1>1, MCInvariant, PTL

(* Under the same hypothesis, when nothing is in progress: a device that   *)
(* was last disabled has no loop, and one that was last enabled has its    *)
(* loop, or its crash is about to be handled, or giving up was logged.     *)
THEOREM LastCommandAlwaysSticks ==
    ASSUME Locked
    PROVE  MCSpec => []LastCommandSticks
<1>1. MCInv => LastCommandSticks
    BY InvSticks DEF MCInv, LastCommandSticks, StopSticks, StartSticks
<1> QED
    BY <1>1, MCInvariant, PTL

(* No rebuild, delayed or in process, brings up a loop while the last      *)
(* command was a disable: with the lock under that hypothesis, and without *)
(* it whatever commands overlap.                                           *)
THEOREM NothingRevives ==
    ASSUME Locked
    PROVE  MCSpec => NoRevival
<1>1. MCInv /\ [MCNext]_mcVars =>
          [want = "off" /\ want' = "off" => Loops' \subseteq Loops]_vars
    <2> SUFFICES ASSUME MCInv, MCNext, want = "off", want' = "off"
                 PROVE  Loops' \subseteq Loops
        BY DEF mcVars, vars, Loops, Alive
    <2>1. CASE LockingNext
        BY <2>1, NobodyRevives DEF LockingNext, MCInv
    <2>2. CASE UnlockedNext
        <3>1. U!Loops' \subseteq U!Loops
            BY <2>2, UnlockedStep DEF UnlockedNext, MCInv
        <3>2. U!Loops = Loops /\ U!Loops' = Loops'
            BY DEF U!Loops, Loops, U!Alive, Alive, U!Tasks, Tasks
        <3> QED
            BY <3>1, <3>2
    <2> QED
        BY <2>1, <2>2 DEF MCNext
<1> QED
    BY <1>1, MCInvariant, PTL DEF MCSpec, NoRevival, MCNext, mcVars
=============================================================================
