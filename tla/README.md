# A verification model of the CUKTECH BLE server

TLA+ modules, TLC runs and TLAPS proofs about the server in this repository: a
Python/asyncio program that keeps one Bluetooth (BLE) connection to each of several
CUKTECH chargers, records charging sessions in SQLite and exposes the devices over
HTTP, server-sent events, Home Assistant MQTT and the Bemfa cloud.

Paths below are relative to the repository root. `PROJECT.json` maps every definition
that models code to the lines it models, and lists runs, mutants, findings, hazards and
theorems.

## 1. Inventory

Everything runs on **one asyncio event loop**. Other threads: the default executor (all
SQLite writes), paho's MQTT threads, and worker threads for JSON and cloud calls. A step
of a model is therefore the code between two suspension points, or one executor job or
thread between two uses of shared state.

| Component (source) | State it keeps | Operations | Talks to | Hard behaviour | What makes it correct | Module |
|---|---|---|---|---|---|---|
| Runtime supervisor (`ha_server.py`) | `task`, `_rebuild_task`, `_stopping`, `_rebuilds` | start, stop, done callback, delayed and in-process (L3) rebuild | `BLEManager.start`, HTTP, MQTT and Bemfa commands | the rebuild task calls `stop()`, which cancels and awaits that same task; crashes racing with stop; commands without `_start_lock` | one BLE loop per device, held by `task`; stop and start stick; no task dies silently | `RuntimeSupervisor` |
| Adapter coordinator (`adapter_coordinator.py`) | gate, semaphore, live links, failure counters, locks | connect window, ladder L1/L1.5/L2, L3 choice | every `BLEManager` | several managers against one adapter; cancellation inside a power cycle | gate and permits never leak; recovery escalates step by step and reaches the adapter | `AdapterCoordinator` |
| Merged scan (`find_device`) | pending futures, scan lock | call, scan, resolve, cancel | `BLEManager` | shared futures under cancellation | every caller comes back, with an answer unless one was stopped | `ScanMerge` |
| Reconnect loop (`ble_manager.py`) | attempts, breaker, authentication failures, budget file | connect, back off, recover, give up, check the link | coordinator, supervisor | four brakes with different resets; a link that is up but of no use | rebuilds are earned; useless links end; it goes on for ever unless stopped | `ReconnectLoop` |
| Charge sessions (`ble_manager.py`, `history.py`) | `_active_sessions`, rows | start, sample, close, resume recording, recover stale rows | executor, MQTT event | the row id arrives in a callback; executor order; crash | a row per recorded charge, none forgotten, one announcement | `ChargeSession` |
| Charge limits and full-off (`ble_manager.py`) | limits, modes, pending, attempts | arm, enforce, confirm, retry, spend | command queue | retries against a port that charges again; one-shot settings | a limit ends its charge; nothing unwanted is retried | `PortLimits` |
| Persistence of settings (API handlers, `ble_manager.py`) | manager's settings, meta table | read, await the write, apply; spend | executor | read-await-write in handlers; spending meanwhile; restart | exclusive settings; table equals manager at rest | `SettingsStore` |
| Command channel (`ble_manager.py`, `controller.py`) | queue, notify queues, cached mask | send, run, answer, time out, drain | HTTP, MQTT, limits | late answers, timed-out commands that still run | at most once and in order; a mask is written on a fresh base | `CommandChannel`, `CommandService` |
| Authentication (`controller.py`) | step, keys, notify queues | connect, nine waits | charger | frames taken for others; a replayed session | keys are this session's | `Handshake` |
| Frame encryption (`controller.py`) | low and high bits of a counter | decrypt | charger | a wrap is guessed before the frame is verified | every frame is read; desynchronisation ends | `FrameCounter` |
| Status cache and event stream (`ha_server.py`) | cached body, client queue, pending status | copy, store, emit, flush, send | browser | body built before an await; bounded queue; changes without an invalidation | the latest status arrives; the body is as new as its last invalidation | `StatusStream`, `StatusCache` |
| Session detection (`energy.py`) | windows, hold, grace, start gate | one reading | charge sessions | medians, gaps, fluctuations, residues | a full device is noticed, none is cut short, no residue opens a charge | `SessionRules` |
| History buffer (`history.py`) | buffers, one connection | record, flush, query, delete | executor | one flush for two buffers; unlocked reads | bounded loss; reads see what was recorded | `HistoryBuffer` |
| Protocol switches (`ha_server.py`, `ble_manager.py`, `state.py`) | PIID 21, its copy | toggle, write, refresh | command channel | lock released before the write is sent | a toggle flips its switch only | `ProtocolSwitches` |
| Bemfa client (`bemfa_client.py`) | connection, ping cycle, state cache | ping, pong, reconnect, publish, receive | Bemfa's broker | reconnecting from inside the cycle; echoes | one cycle; only dead connections are given up; echoes are not commands | `BemfaClient` |
| Configuration and restart (`ha_server.py`, `config.py`) | `config.yaml`, mark, retained topics, recorded ids | save, purge, restart, delete and register topics | Bemfa cloud, MQTT broker | crash between any two steps; saves in a row | it starts; the cloud has what is configured | `ConfigRestart` |
| Xiaomi cloud import (`ha_server.py`, `xiaomi_cloud.py`) | login session, timer, lock | scan, complete, fetch keys, expire | Xiaomi cloud | threads outlive their handlers; expiry | one fetch at a time; a session ends and stays ended | `CloudImport` |
| Registry and routing, Home Assistant MQTT, state decoding, downsampling and logging, CLI tools, web front end | | | | | | section 8 |

The list of hazards in `PROJECT.json` has one entry per place where this code can go
wrong in a way a test would hardly reach.

## 2. Plan

The model of the system is complete as far as it is meant to go (section 8 says what is
left out), and every safety property that holds is proved: for every value of the constants,
or from the hypotheses section 5 names. Left to the runs is liveness. What could still be
proved are statements no run makes yet, above all refinements: that a history of charges is
what `ChargeSession` keeps, one row for each recorded charge, written once; and that
`SettingsStore` without overlapping writers or failures is a table that is read and written in one step.

No module that a proof uses has a RECURSIVE operator.

## 3. Modules and how they correspond to the code

Every module begins with a comment that says what it stands for, and each variable names
the attribute it models; variables marked *external* are the charger's, the radio's or the
cloud's, variables marked *auxiliary* or *history* only record what has happened, for the
properties or to bound the behaviours.

### RuntimeSupervisor
One device. `task`/`tst` stand for `self.task` and the asyncio tasks it has named: `live`,
`closing` (cancelled, or leaving after asking for L3), `crashed` and `quiet` (ended, done
callback still to run), `free`. `rtask`/`rst`/`rwait` do the same for `_rebuild_task`:
`delay` (sleeping in `_rebuild_after`), `new`, `await` (inside its own `stop()`, awaiting
`_rebuild_task`), `reap` (awaiting the BLE task), `dying` (cancelled). `spc`/`swait`
follow the commands inside `stop()`, `lock` is `Server._start_lock`.

`Enable` and `Disable` are `handle_enable` (locked) and the MQTT/Bemfa commands (not
locked). `Disable`, `StopAfterRebuild`, `StopReaped` are the three stretches of `stop()`
for a command, `RebuildBegins`, `RebuildContinues`, `RebuildReaped` the same code run by
the rebuild task, which meets itself in `_rebuild_task`. `WakeDue` states asyncio's order:
whoever awaits a task resumes in the same turn as its done callback. Two guards that the
code has and no behaviour of the passing run reaches are kept: the delayed rebuild that
finds `_stopping` set (a `stop()` cancels it first), and `schedule_rebuild` with a rebuild
pending.

`Env` switches on behaviours of the environment: in-process rebuilds, failing mounts,
commands without the lock, enabling while a rebuild is due, disabling while L3 runs.

### AdapterCoordinator
Any number of devices. `mpc[m]` is where the reconnect loop of manager *m* is: `rest`,
`gate`/`pass` (waiting at, woken at the recovery gate), `queue` (semaphore), `window`
(scan, connect, authenticate), `settle` (reading settings, still holding the slot),
`online`, `drop` (`_disconnect()`), `l1`, `l15`, `wait`, `cycle` (ladder, lock, power
cycle), `stuck`, `rebuild`, `off`. `after[m]` remembers what follows `_disconnect()`.
`phase`, `victims`, `powered` are the power cycle. `Calm` says that wake-ups the loop owes
run before any delay or subprocess ends. The counters are counted up to `L1Before + 1`, the
only distinction the code makes. Hidden in the steps: subprocess output, delays, scan
results.

### ScanMerge
`find_device`, whose first caller for an address makes a future and scans for everybody.
A caller is out, follows, is queued at the scan lock or scans; `pending` is the table of
futures. A scan finds any set of devices, and its results reach the followers at once.
Callers are cancelled at any await.

### ReconnectLoop
The loop of one manager with its brakes. `phase` is where it is, `err` the kind of the
last error, which decides what follows. The link's `health` is external: it may stop
answering, be unreadable or lose its timer, and each check of the running link counts as
the code counts. Delays are not measured: one that runs may be over. `ledger` is the budget
file, spent by other devices too. What adapter and supervisor do with a request is in
their modules; a stop that meets an in-process rebuild is in `RuntimeSupervisor`.

### ChargeSession
One device, any number of ports; `record` is the switch of `/api/session-recording`.
`charging`, `enough`, `active` are `is_charging`, `session_wh >= 0.05` and
`_active_sessions` (row id, negative stand-in, or none). `jobs` holds the executor jobs
whose database write has not happened: they are queued first-in first-out but meet at the
lock in any order. `answers` are row ids on their way back. `rows` is the table.

`StartCharge`, `Close`, `CloseAll`, `SwitchOn` are `_start_session`, `_close_session`,
`_close_active_sessions` and the POST handler with `resume_recording_sessions`; `Answer` is
`_on_session_start` and `_on_upgrade`, which differ only in the id they expect (`Wanted`).
`RunJob` is one executor job. It may fail: an insert returns 0 and no row is handed over
(`InsertFails`), an end or a deletion is logged and leaves the row open, a deletion perhaps
without its points (`EndFails`, `DeleteFails`; `unwritten` remembers these rows for the
properties). `CrashRestart` is a crash and the `close_stale_sessions` of the next
`connect()`, which ends or deletes each open row, or fails to (`Cleaned`). *When* a session starts or ends is left open here: any running session
may end, any idle port may start one (`SessionRules` says when they do).

A rebuild (L3) replaces the manager after `close_active_sessions`; here the same `active`
goes on, which allows more: a late callback of the old manager deletes its row, here it may
also be adopted.

### SessionRules
The rules themselves, reading by reading: medians of two windows, hold, grace, recovery,
the gate of the next charge and the debounce of "no load". Times are ticks with the code's
order of magnitudes kept (a long window several times the short one, a hold longer than
the long window); powers are nothing, just at the base threshold, and in earnest; 5 V.
`tail`, `strong`, `calm`, `residual`, `judged` measure what the properties speak of
independently of the detector: `strong` is how long every reading has been above 5 W, and
`calm` starts anew when that is `RECOVER_SEC`. The integrated energy is a choice (`enough`).
A window is a sequence whose old end is cut off (`Within`); the code filters it, which is the
same while readings are in order of time. Medians are order statistics (`Ranked`).

The times are constants; `RulesConstants` asks of them only how those of
`src/energy.py:171-181` compare: no window is longer than the one of 180 s but the 300 s that
are kept, `GRACE_SEC` is less than those, and so is twice `RECOVER_SEC`. Both bounds matter: a
run of high readings must be in the window whole when it is long enough, and nothing may be
held across a gap that has emptied the window. `FullBy`, the time by which a full device is
noticed, is the long window, one gap between readings and `HOLD_SEC`: the last high reading
may be just within the window when the long median is taken, and then the next one counts.

### PortLimits and SettingsStore
`PortLimits` is the manager: limits and full-off, whose decisions are queued as commands
and confirmed or retried by readings. A charge is below its limit or has reached it; the
retry window may have passed. `SettingsStore` is the other half: handlers snapshot the
settings, await the executor's write and apply; the end of a charge spends a one-shot
setting and queues a write; a rebuild or restart reads the table. Any write and any read may
fail, as `set_meta` and `get_meta` log the error and return: the handler then sets the manager
all the same, and a manager that could not read starts with the default (`SetMeta`, `GetMeta`;
`unsaved` has the settings for which the table may then differ). In it "always" would be
"once" of a charge that never ends.

### CommandChannel implements CommandService
`CommandService` is the promise of `send_command`: a command is carried out at most once,
never before it was queued or after a later one, and has one answer; "ok" is told only of
one that the charger has done. `CommandChannel` is the code: a bounded queue, callers'
time-outs that leave the command queued, the command loop with its GET and SET, an inbox
in which answers are matched by kind only, the drain before each exchange, a charger that
ignores or answers late, buttons on the charger, and a link that is lost. The variables of
the service are variables of the channel (its history of executions), so the refinement
mapping is the identity on them; `ServiceSpec` checks it.

### Handshake and FrameCounter
`Handshake`: the login, wait by wait. Frames are kinds, each wait takes the oldest frame or
times out, and a charger that was not told of the end of its last session may replay that
session. It may also send its init frame up to four times before the key, or instead of
it. HMACs are the keys they were made with. `FrameCounter`: the host's reconstruction of
the charger's counter. The frame can be read if the reconstructed value is right; frames
may be missed, and noise (frames that are not the charger's) arrive.

### StatusStream and StatusCache
`StatusStream`: one client's queue with the pending status beside it; the statuses of a device
are numbered as they are emitted. `StatusCache`: the cached body of `/api/status`; a device's
state is a version number. `Change` is any change of the state and touches nothing else.
`Invalidate` comes when it comes: right after a change, after more reads from the device
(`src/ble_manager.py:2142`), or after none; a change may have none of its own
(`src/ble_manager.py:2453`, `src/ha_server.py:1690`). A request misses the cache, waits for the
state's lock, copies the state and stores the body when a thread has encoded it: `Miss`,
`Copy`, `Store`.

### HistoryBuffer
Threads that run the methods of `history.py` step by step: what is in the buffer, what the
shared connection sees, what is committed. A flush may fail in the middle. Rows are
numbered and of two kinds.

### ProtocolSwitches
The value is a set of bits; one bit is none of the switches. Requests, their queued
commands (which may outlive them), the write-back of the copy by the command's task and by
the request, refreshes, and changes by others.

### BemfaClient
The ping cycle as a count of live tasks, the monitor of one ping, `_reconnect` in two
steps, and the echo of the states that are published. A connection may be half-open. The
state cache begins empty: on connecting, "off" is announced for an entity without a state and
not remembered (`Announced`).

### ConfigRestart
The file, the process (down, five steps of its start, up, stopping), what the broker
retains and the cloud has. It may die in any step. A configuration is a set of devices, a
version of the names and whether it is valid.

### CloudImport
The session's timer, the requests' handlers, each cut off at its limit, and the threads
that do the work. Time passes in ticks.

### Composition
`MCServices` and `MCStores` put components that share no state into one run: `part` says
which component the behaviour is about, the others stand still. Their properties are
conjunctions of the components' own, named for what they promise together; each conjunct
has a mutant of its own. The components that do interact meet inside modules: manager and
adapter in `AdapterCoordinator`; session, executor and table in `ChargeSession`; handlers,
manager and table in `SettingsStore`; caller, queue, loop and charger in `CommandChannel`;
file, process, broker and cloud in `ConfigRestart`.

## 4. Runs

| Run | Bounds | Question and outcome |
|---|---|---|
| `sup_core` | 3 task and 3 rebuild identities, 1 caller, cap 2, L3 and failing mounts; and 2 callers without the lock, cap 1 | One loop, held by `task`; stop and start stick; no crash unnoticed; `stop()` returns. Without the lock: no revival, overlapping `stop()` calls return. Holds. |
| `ad_safety` | 3 devices, 2 slots, `L1Before` 0, disabled at any await | Permits and records of live links stay consistent under cancellation. Holds. |
| `ad_live` | 2 devices, 1 slot, fairness | Registry true, ladder not skipped, gate respected and reopened, everybody served, the ladder reaches the adapter. Holds. |
| `sess_core` | 2 ports, 2 charges, 2 rows, 1 failing insert, any number of failing ends and deletions, crashes and switches | Registered rows are open, none is forgotten but by its own failing write, one announcement per charge, finished rows stay, rows settle. Holds. |
| `loop_core` | limits of 1 to 3 in place of the code's | Rebuilds are earned, useless links end, the loop goes on unless stopped and ends when it is. Holds. |
| `chan_core` | 2 ports, 2 calls, a queue of 1, 1 switch from outside, 1 lost link | The channel implements the service, writes masks on a fresh base, answers every call. Holds. |
| `store_core` | settings: 2 ports, 2 requests, 1 write behind, and overlapping writers or 1 failing write or read (`MCSpec`); history: 2 threads, batches of 2, 3 rows; switches: 2 clients, 3 switches, 2 mishaps; rules: scaled times | The components that keep data, and the rules of a charge. Holds. |
| `svc_core` | handshake: 2 attempts; counter: range 8, gaps of 2, 2 noises; stream: 2 devices, 3 statuses, 3 events, queue of 2; cached bodies: 2 devices, 2 requests, 3 versions; Bemfa: 2 flaws, 2 messages; limits: 1 port, 4 attempts, queue of 3; restart: 2 saves, 2 mishaps; import: 2 requests; scan: 4 callers, 2 devices | The link and the services around it. Holds. |
| `sup_disable_l3` | as `sup_core`, disabling during L3 | `StopSticks` refuted. |
| `ad_poweroff` | 2 devices, 2 slots | `PowerOffSparesLive` refuted. |
| `stream_stale` | as in `svc_core` | `NeverBackwards` refuted. |
| `config_ghost` | as in `svc_core` | `NoGhosts` refuted. |

The named conjunctions, and what they are made of:

| Run | Property | Conjuncts |
|---|---|---|
| `sup_core` | `LastCommandSticks` | `StopSticks` and `StartSticks`, under the lock |
| | `SupervisorGoesOn` | `NoSilentDeath` under the lock, `StopsReturn` |
| `ad_live` | `CycleIsSafe` | `OpenGateIsPowered`, `NoEntryWhileClosed`, `CycleStartsOffline` |
| | `AdapterGoesOn` | `GateReopens`, `EveryAttemptIsServed`, `LadderReachesAdapter` |
| `sess_core` | `EventAndRow` | `OneEventPerCharge`, `RecordIsComing` |
| `loop_core` | `LoopGoesOn` | `DeadLinkEnds`, `KeepsTrying`, `StopEnds` |
| `chan_core` | `CallsAnswered` | `Service!Answered`, `RoomComes` |
| `store_core` | `SettingsAgree` | `PermanentIsExclusive`, `PersistedAtRest` |
| | `HistoryKept` | `OnlyABatchAtRisk`, `DeletedStaysDeleted` |
| | `ReadsAreTrue` | `ReadsSeeRecorded`, `LockedReadsAreDurable` |
| | `SwitchesTrue` | `OnlyItsSwitch`, `CopyIsTrue` |
| | `RulesHold` | `FullIsNoticed`, `ConvergedIsCalm`, `ResidueOpensNothing` |
| `svc_core` | `LinkIsOurs` | `KeysAgree` (handshake), `AnsweredUnlessStopped` (scan) |
| | `FramesAreRead` | `ReadsEveryFrame`, `ReadsAgain` |
| | `StreamIsClean` | `NothingLeftBehind`, `BodyIsCurrent` |
| | `ClientIsSane` | `OneCycle`, `OnlyWhenLost`, `EchoIsNoCommand` |
| | `LimitsAreKept` | `SwitchOffIsWanted`, `FiredIsThisCharge`, `PermanentIsExclusive`, `OnlyRealEndsSpend` |
| | `RestartIsSafe` | `FileBoots`, `CloudIsConfigured` |
| | `ImportIsSafe` | `OneFetches`, `ExpiredStaysExpired` |
| | `ServicesGoOn` | `AttemptEnds`, `CallsEnd`, `LatestReaches`, `HalfOpenEnds`, `FullOffResolves`, `LimitIsEnforced`, `SavedIsRun`, `SessionEnds` |

Why the bounds are enough. *Supervisor*: a task identity is reused once nobody refers to
it; one live loop, one awaited corpse and one new loop need three, and a step that needs a
fresh identity when none is left is cut off. The cap of 2 shows the cap being reached after
a first rebuild succeeded. *Adapter*: three devices are needed for a queue behind the
adapter's lock and for links that come up while two others are in recovery; the counts of
the ladder, which do not matter to `ad_safety`, are cut to the first failure there
(`L1Before` 0) and tried with 1 in `ad_live`, which gives the same ladder as 2 with one step
less. `ad_live` has two devices because two of its properties fail for three (section 7);
three devices with `L1Before` 1 and disabling (2.6 million states) hold too, but take too
long to be a run. *Sessions*: two rows and two charges are what it takes for a callback to
meet the next session; a second port shows that rows are not mixed up. `MaxJobs` bounds only
sampling points; writes that change a row are never dropped. *Loop*: each limit is small but
above one where "the first time" and "every time" differ. *Channel*: two calls and a queue of
one show a call in the loop, one in the queue and one waiting for room, in any two of these
places. *Frame counter*: a range of 8 with gaps of 2 keeps a gap below half the range, as
2^16 does with any real one; `ahead` is bounded by the noises. *Settings*: `MCSpec`
tries overlapping writers and failures in separate behaviours, to keep the run short; the
theorem is about `Spec`, which has both. *Stream*: a queue of 2
overflows with 2 events and a status. *Cached bodies*: three versions are a body, a change
behind it and one behind its invalidation. *Bemfa*: three lost pings, as in the code. *Limits*:
ports do not share anything but the queue. *Scan*: three callers of one device and one of
another give a leader, two followers and a second scan behind the first. *Rules*: a
behaviour is endless; the windows make the states finite.

Deadlock is checked except where a behaviour may end: `chan_core` when both calls are
answered, `svc_core` when bounds are used up and nothing is under way (a session that has
expired, an attempt that was the last).

**Fairness.** Nowhere is the environment (charger, user, cloud) bound to do anything, except
where said.
*Supervisor*: done callbacks, timers, woken tasks and cancelled loops go on; no loop has to
crash and nobody has to send a command. *Adapter*: delays end, subprocesses and GATT calls
have timeouts, so each manager's step is taken in the end; strong fairness for the slot, the
lock and the loop's own steps stands for asyncio's first-in first-out queues, which the
model keeps as sets, and for the turns between which `Calm` is false. No connection ever has
to succeed. *Sessions*: the executor's queue is first-in first-out, so its head is served;
callbacks handed to the loop run. *Reconnect loop*: every await has a time-out or is ended
by the stop event, delays end, and on a running link the port timer's watch, the readback
and the refresh come round. *Channel*: the callers' clocks and, while there is a link, the
command loop, whose exchanges time out; the charger need not answer. *Stream*: the client's
coroutine flushes and sends while the client is there. *Handshake*: waits time out.
*Frame counter*: frames arrive. *Bemfa*: the timers of the ping cycle; the cloud need not
answer. *Limits*: the command loop and the retries run; strong fairness for enforcing a limit
and for the run of its off command says that a charger that is asked again and again obeys
once, which is what the retries count on. *Restart*: a process that stops, stops, and is
started again. *Import*: time passes and threads go on. *Scan*: a scan ends and futures wake
their waiters.

**Mutants.** For each property of a passing run, and for each conjunct of those in the
table, `PROJECT.json` names a definition and a variant of it (marked `mutant` in the module)
with a bug of the kind that code invites: a dropped guard, an early reset, a forgotten
unregister, a stop that does not mark itself. With the variant in place TLC refutes the
property.

## 5. Proofs

`AdapterCoordinatorProofs` proves, for any finite set of devices, any connect limit and
threshold (assumption `AdapterAssumption` only):

- `TypeCorrect`: the type invariant. Permits stay natural numbers because a slot is taken
  only when one is left.
- `GateCorrect`: `GateClosedOnlyInCycle`, which no run needs any more. Inductive relative to
  the types: the gate is written only by `BeginCycle`, under an empty cycle, and by
  `OpenGate`, on both ways out.
- `LadderCorrect`: `LadderNoSkip` is not inductive, since it says nothing of a device that
  waits at L1.5 or of resets by others. The invariant `LadderClimbed` adds `l15` with
  `l1 > L1Before` and is kept because counters of a device in recovery are reset only by
  that device.
- `LiveCorrect`: `LiveIsClean` needs `LiveNotRecovering`: a device listed as live is not at
  a step of the ladder that would count a failure against it.
- `LiveTrue`: `LiveIsTrue`, from the assumption that no device is disabled inside its
  `_disconnect()` (without it the statement is false, section 7).
- `SlotsCorrect`: permits plus holders is the limit; `HoldersChange` does the counting
  with the finite-set library.
- `TwoDevicesAreSafe`: `CycleIsSafe` for at most two devices, none of which is disabled; with
  three it is false (section 7). The invariant `CycleInv` says that the cycle has no link to
  disconnect, that whoever waits for the adapter does so while the other device is in the
  cycle or has just left it (`Turns`), and that the registry misses no link
  (`LinksAreListed`). It rests on all the other invariants: `QueueIsEmpty` counts permits,
  `LockFindsNobody` reads the registry.
- `GateOpensPowered` and `GateHoldsBack`: two parts of it that reach further.
  `OpenGateIsPowered` holds for any number of devices while none is disabled;
  `NoEntryWhileClosed` holds, however devices are disabled, while there are no more devices
  than connect slots (`src/ha_server.py:535` has two).

`ChargeSessionProofs` proves, for any finite set of ports and any bounds (assumption
`SessionAssumption` only):

- `RegisteredWhileCharging`, `RegisteredRowIsOpen`, `NoRowForgotten`: the invariants
  `SidOnlyWhileCharging` (in no run any more), `ActiveRowIsOpen` and `OpenRowsAccounted`.
- `FinishedRowsAreHistory`: the action property `FinishedRowsStay`.

None of the last three is inductive. `ActiveRowIsOpen`, for instance, could be broken by a
callback that hands over a closed row. The invariant `Inv` (theorem `Ledger`) says who may
still touch an open row: the session that registered it (`RegisteredRows`), the callback that
will hand it over (`AnswerRows`) or one pending write (`WriteRows`), never two of them. It
also says that a row is asked for under a stand-in id or none (`Tags`), so that a callback
never overwrites a registered row. Each step passes a row from one holder to the next:
`InsertStep` to a callback, `HandOverStep` to a session, `OrphanStep` and `CloseStep` to a
pending write, `WriteStep` ends it or, when that write fails, enters the row among the
`unwritten`. As a pending write names a row that is still open, it
never meets a finished one. The lemmas `Appended`, `Removed` and `Ran` are about the queue of
jobs: what stays where when one is added or taken out.

- `SessionTypes`: `TypeOK` with its bounds. It needs `Numbers`: a row is asked for only
  while there is room for it, counting the requests still in the queue.
- `EventsAndRows`: `EventAndRow`. `OneEventPerCharge` becomes inductive with `Announced` (a
  charge has a number of its own, and nothing was published under the number of one that
  still runs); `RecordIsComing` is inductive beside `Inv`. `ListedOnce` and the lemmas after
  it say what `_close_active_sessions` does to several ports in one step, in any order.

`RuntimeSupervisorProofs` is about both environments of `MCRuntimeSupervisor`, for any
number of tasks, rebuilds and callers:

- `SupervisorTypes`: `TypesOK`, from the types alone and whatever `Env` shows.
- `LoopIsAlwaysHeld`, `LastCommandAlwaysSticks`, `NothingRevives`: `LoopIsHeldLocking`,
  `LastCommandSticks` and `NoRevival`, from the hypothesis `Locked`: every command takes
  the lock, none enables a device while a rebuild of it is due or disables it while an
  in-process rebuild runs. Without it they are false (section 7, and `sup_disable_l3`).

None of these is inductive: that a live loop is the one `task` names says nothing of a
delayed rebuild that is about to start a second one. `SupervisorInv` says who is responsible
at each moment. A loop that is alive is the one `stop()` would reap, and so is a rebuild until
it forgets itself (`LoopsAreHeld`, `RebuildsAreHeld`); a live loop excludes every rebuild
(`LiveIsWanted`); a crash that nobody has handled excludes loops, rebuilds and stops
(`CrashedIsAlone`); whoever is cancelled is awaited, by a command or a rebuild
(`ClosingIsAwaited`, `DyingIsAwaited`: without the latter, a `stop()` that goes on could
forget a rebuild it did not cancel); rebuilds are for wanted devices (`RebuildsAreWanted`).
Then a start finds nothing alive (`SpawnedKeeps`) and a stop leaves nothing behind
(`CallReapKeeps`). Without the lock, `UnlockedInv` is enough for
`NoRevival`: a device that is not wanted is marked as stopping, and the only kind of
rebuild there is gives way to that mark.

`ReconnectLoopProofs`, for all limits:

- `LoopTypes`: the counters keep within their limits. The counters of the link's checks are
  strictly below theirs while it is up (`BelowLimits`), since the check that reaches one ends
  the link in the same step.
- `RebuildsAreEarned`: `RebuildIsEarned`, by `FailuresAreRefusals`: the failure counter, which
  is bumped a step after the refusal, never runs ahead of it.
- `BreakerIsRespected`: while the loop connects or is connected the breaker is not full; no
  run states this one.

`CommandChannelProofs`, for any ports, calls, queue size and bounds:

- `ChannelTypes`: `TypeOK`, with the queue's bound and its order.
- `FreshMaskIsWritten`: `WritesFreshMask`, by `SureIsFresh`: a mask read when nothing else was
  outstanding is the charger's until it is written back.
- `ChannelImplementsService`: the refinement. Every step is a step of `CommandService` or a
  stutter. The argument is about order: what is queued, under way, on the wire and executed
  are, in this order, ever earlier parts of one sequence (`QueueIsRest`, `OneUnderWay`,
  `WireInOrder`, `ExecutedFirst`), so a command runs once and behind its predecessors; and a
  command sent when nothing was outstanding hears its own answer (`UndoubtedIsAlone`), so
  "ok" is true. The service's fairness is `Service!Answered` in the run.

`StoresProofs`, for any constants that the parts assume:

- `HistoryIsKept`, `ReadsFindWhatWasRecorded`: `HistoryKept` and `ReadsAreTrue`. What was
  recorded and has not gone is in the buffer or seen by the connection (`NothingLost`), who is
  inside a locked method holds the lock (`LockIsHeld`), and a transaction is open only in the
  middle of a flush (`Committed`).
- `SwitchesAreTrue`: `SwitchesTrue`, with `ResumedIsSent`: what a request writes to the copy
  is what its command wrote to the charger, as long as nothing went astray.
- `SettingsAlwaysAgree`: `SettingsAgree`. `PermanentIsExclusive` holds whatever overlaps
  because each handler's snapshot keeps the rule by itself (`ModesExclude`); `PersistedAtRest`
  because, unless writers met (`mixed`), there is one writer at most (`OneWriter`) and the
  table differs from the manager by exactly what it has written and not set, for every setting
  whose last write or read did not fail (`TableFollows`).
- `RulesAlwaysHold`: `RulesHold`, for any pace of the readings and any lengths of the windows
  and holds (`RulesConstants`). The lemmas on operators come first, by the least element of a
  set of numbers instead of induction: a maximum exists (`GreatestNumber`), the k-th smallest
  value is one of them (`RankedIsAValue`), so a median lies between two readings
  (`MedianOfFacts`); cutting a window keeps exactly the readings that are young enough
  (`WithinReadings`); recovery is not seen without a high reading (`NoRecovery`) and is seen
  once a run of them is as old as `RECOVER_SEC` (`RunIsSeen`). Then `RulesInv` ties the
  detector to the history. `TailIsHeld`: while next to nothing is drawn all those readings
  are low, and once they fill the long window the hold has gone on ever since. `StrongIsSeen`:
  while a charge is in earnest all its readings are high and the first is in the window,
  unless the window begins later. `HoldIsCalm`: a hold is never older than the calm, and a
  run of high readings within it is too short yet and will be seen when it is not.
  `ResidueIsLow`: after a charge no reading reaches the raised threshold.
- `StoresTypes`: `TypesOK`, the types of all four.

`ServicesProofs` and `LinkProofs`, for the parts of `MCServices`, each with an invariant of
its own that the steps of the other parts leave alone:

- `StreamStaysClean`: `StreamIsClean`. `BodyIsCurrent` rests on `CopiesAreCurrent`: a copy that
  no invalidation came after is no older than the last one (`CacheInv`). No step assumes that
  a change is followed by an invalidation.
- `ImportStaysSafe`: `ImportIsSafe`: who fetches keys holds the lock unless its handler was
  cut off (`ImportInv`).
- `LimitsStayKept`: `LimitsAreKept`: the state properties are inductive together with the
  types, port by port; `OnlyRealEndsSpend` is a property of the steps.
- `ClientStaysSane`: `ClientIsSane`: no ping is watched while the client is given up and
  joined again (`PingInv`), and without an overlap one message at most is on its way, which says
  what the cache has if it is an echo and the cache is not empty (`EchoInv`).
- `RestartStaysSafe`: `RestartIsSafe`: what a start has done when it dies is always known to
  the next one, by the recorded ids or by the mark (`TopicsAreKnown`, `NamesAreMarked` within
  `CloudFollows`), for saves of any content.
- `LinkStaysOurs`: `LinkIsOurs`: until the host's HMAC is accepted the charger's session is an
  earlier one and what it sends carries that session's keys, so a replay cannot yield the
  keys of the new session (`LoginInv`); an open future is on the board, where the next scan to
  end finds it (`ScanInv`).
- `EveryFrameIsRead`: `ReadsEveryFrame`, the action property within `FramesAreRead`, for any
  range of the low bits more than twice the gap: the host is behind by the frames it has not
  seen, across any number of wraps (`CounterInv`).
- `ServicesTypes`: `TypesOK`, with every bound in it. Most parts only add the types of what
  the invariants above do not speak of. The bound on how far noise can turn the frame counter
  needs `Drift`: each frame of noise moves the host's high bits by one wrap at most, and the
  host may only be one more behind as long as it has read nothing but frames (`Clean`).
  Holding the import's lock implies running (`ImportTypes`); a process that is down or starts
  has no handlers left (`ProcessTypes`).

**Assumptions.** Besides the named `ASSUME` of each module (sets of ports, calls or devices
that are finite where the code has finitely many, limits that are natural numbers, and
positive where the code's are) only that a value for "nobody" (`Nobody`, `NoOne`, `None`) is
not one of the threads, clients, requests or callers. `ChargeSession` and the others are
not restricted to the runs' bounds. Some theorems have a hypothesis of their own,
stated with them, which the runs' constants satisfy: `LiveTrue`, `TwoDevicesAreSafe` and
`GateOpensPowered` (`ad_live` has two devices and disables none), and the three with `Locked`.
`GateHoldsBack` is about as many slots as devices, which is what the code has for two devices;
the passing runs have fewer slots, for the queue to be used.

**Only model-checked.** All liveness properties (`SupervisorGoesOn`, `AdapterGoesOn`,
`RowsSettle`, `LoopGoesOn`, `CallsAnswered`, `ServicesGoOn`, `ReadsAgain`): fairness and
`ENABLED` are out of the prover's reach. Nothing else that a passing run states.

## 6. Findings

1. `stop()` forgets the rebuild before its second await: a disable during an L3 rebuild is
   undone (`sup_disable_l3`).
2. A manager that was in its connect window when the gate closed goes live and is powered
   off (`ad_poweroff`).
3. A status that waits in the browser's queue, moved there by another event, is overtaken by
   a newer one and then delivered after it (`stream_stale`).
4. The retained topics of removed devices are cleared while their managers still run and
   report; they are on the broker again when the program starts without them
   (`config_ghost`).

## 7. Known deviations that no run lists

What the code does contrary to its comments or to expectation, and where the properties make
an exception of it. Most can be seen by changing a constant of a run or dropping an exception.

- *Supervisor.* `start()` does not look at a pending rebuild: enabling a device between its
  crash and the delayed rebuild makes two loops (`Env` with `"impatient"`).
- With `"unlocked"` in `Env`: an enable that lands while `stop()` reaps is lost
  (`StartSticks`), one that lands between the loop's end and the done callback has its loop
  forgotten (`OneLoop`).
- A failing in-process rebuild leaves the device stopped, with a log line and no retry. The
  model counts the log line as having given up. `_rebuilds` is reset only by an in-process
  rebuild: the cap of consecutive rebuilds is a cap on all of them (`src/ha_server.py:487`).
- *Adapter.* Disabling a device between power off and power on opens the gate with the
  adapter off. `_stuck_devices` is emptied in the step that fills it, so the escalation of
  two stuck devices cannot happen (`src/adapter_coordinator.py:384`).
- Three devices and one slot: the gate may close between gate and semaphore
  (`NoEntryWhileClosed`). Three devices: `_can_reset_adapter` is not asked again after the
  wait for the lock (`CycleStartsOffline`). These two hold for two devices only.
- `"disable_in_drop"`: a device disabled inside `_disconnect()` stays listed as live
  (`LiveIsTrue`).
- L2 follows the first L1.5 in the same call, contrary to the comment at
  `src/adapter_coordinator.py:53`.
- *Merged scan.* A follower that is cancelled cancels the shared future: the leader and the
  other followers get a `CancelledError` (`src/adapter_coordinator.py:193`).
- *Reconnect loop.* The breaker counts failures that are not consecutive: only a normal
  return of the link resets it (`src/ble_manager.py:1519`). `stop()` during
  `ctrl.connect()` may leave a link that nobody holds (not modelled). A budget file that cannot
  be read counts as empty and a failing write of it is ignored (`src/ble_manager.py:1426`,
  `src/ble_manager.py:1442`): the model's file does not fail, so the hourly budget of
  `RebuildIsEarned` is promised for a file that can be read and written.
- *Sessions.* When a port closes and reopens while its first insert is under way, the second
  session adopts the first one's row and its own is deleted: that row starts too early. The
  first session, closed before its row was known, is announced but not recorded.
- A row whose session ended while recording was switched off, or below 0.05 Wh
  (`src/history.py:955`), stays open until the next start (`abandoned` in the model). So does a
  row whose UPDATE or DELETE fails (`src/history.py:920`, `src/history.py:1016`), which is logged
  and not tried again (`unwritten`), although the docstring of `close_stale_sessions` speaks of
  rows left by a killed process only. A write that fails is taken to fail as a whole, but for
  the two statements of a deletion.
- *Session rules.* `recovery_sec` counts the gap before a single high reading: after 45 s
  without a reading one high one resets the hold.
- *Limits.* An off command that is queued already still cuts a port that has become permanent
  (`src/ble_manager.py:419`). A one-shot limit that is spent while a handler awaits its
  write comes back (`src/ha_server.py:2005`); `mixed` marks these cases.
- *Settings.* A setting that could not be written (`src/history.py:232`) holds in the manager until
  the next rebuild or start, and the API has answered ok; one that could not be read is lost
  to the manager while the table has it. `PersistedAtRest` excepts both (`unsaved`), and a
  limit or full-off that a start drops since the write that freed the port had failed.
- *Channel.* A late answer to an exchange that timed out is taken for the next one's of that
  kind; such calls are `doubtful`. After an unanswered GET the cached mask is the base.
- *Handshake.* When the wait for a late key times out before the third try, the login goes on
  as if the key had come; it then fails at a later wait. The byte that tells the charger's
  response differs between the code and its comments (`src/src/cuktech_ble/controller.py:563`).
- *Frame counter.* Noise can turn the reconstructed counter by a wrap, until the failures end
  the session. The model counts every frame that cannot be read; the code does not count those
  that arrive while a GET or SET waits for its answer (`src/src/cuktech_ble/controller.py:1022`),
  so the session may end later than in the model.
- *Status cache.* `handle_status` may store a body over an invalidation (`missed`). A change
  without an invalidation (`src/ble_manager.py:2453`; `src/ha_server.py:1690`, unlike line 1682) or
  before a late one (`src/ble_manager.py:2142`) is not in the cached body until the next
  invalidation of that device: `BodyIsCurrent` promises the state as of the last invalidation,
  not as of the last change.
- *History.* A point recorded after `delete_session` stays without a session
  (`src/history.py:1012`). A delete that fails in the middle leaves its transaction open;
  reads without the lock may see rows that are not committed.
- *Protocol switches.* The comment at `src/ha_server.py:1646` promises an atomic
  read-modify-write-send; the lock is released before the send, and the second of two toggles
  in flight undoes the first. PIID 21 is not read at first, so the base is 0 until it is; a
  toggle drops bits that are no switch.
- *Bemfa.* A refused reconnect leaves the cycle without a client for ever; `stop()` during
  `_reconnect` brings the client back; an echo that arrives after another change is executed
  as a command (`overlap`). So is the echo of the default "off" announced for an entity whose
  state is not known (`src/bemfa_client.py:229`), if it arrives later than the ten seconds in
  which messages are ignored.
- *Restart.* The mark is cleared even when a registration failed (comment at
  `src/ha_server.py:1174`); the record of the ids that were registered may fail to be written
  (`src/ha_server.py:1227`, not modelled), after which a topic removed later is not deleted;
  a failed deletion is not tried again (`refused`); `write_text`
  is not atomic (`torn`). An empty token of the primary device in the older form of the file
  overwrites the stored one, contrary to the comment at `src/ha_server.py:2762` (not
  modelled).
- *Import.* The budget of an import is checked before each call, which may overrun it; a
  handler that is cut off frees the lock while its thread runs on (`cut`);
  `handle_xiaomi_qr_complete` takes no lock, so two threads may share one `Session`; the two
  requests of `src/xiaomi_cloud.py:95` have no time-out.

## 8. Not modelled

Components: the routing of requests to devices (stateless); the set-up of Home Assistant's
MQTT and its publishing (its commands are in `RuntimeSupervisor`, its retained messages in
`ConfigRestart`); decoding of payloads; downsampling and logging; the command line tools; the
web front end; cryptography.

Parts of modelled components: the integration of energy; clean-up of old rows and SQL
queries in `history.py`; parsing of single fields of the configuration, edits of the file by
hand, and a broker that is away; stopping in the middle of `ctrl.connect()`; a second port in
`PortLimits`; the display-only mark `full_off_fired`.

Simplifications: time is abstract but in `SessionRules` and `CloudImport`, where it is scaled.
An ACK and a Result of the charger are one answer. `Refresh` and `Connect` of the channel
read the mask in one step. In `ConfigRestart` each device has one entity. In `CloudImport`
each request is made once. A crash between the two writes of one handler is set apart
(`mixed`) in `SettingsStore`. The thread on which paho cancels a task is not told apart from
the event loop.
