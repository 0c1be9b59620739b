----------------------------- MODULE ConfigRestart -----------------------------
(***************************************************************************)
(* Saving the configuration and starting anew with it (ha_server.py): what *)
(* the file, the broker and the Bemfa cloud are left with, wherever the    *)
(* process dies.                                                           *)
(*                                                                         *)
(* A configuration is its devices, each with one entity in the cloud, the  *)
(* names of the entities, and whether load_config accepts it.  A topic     *)
(* keeps the name it was created with, so a change of names is marked in   *)
(* the file ("modified") for the next start, which then creates the topics *)
(* anew; those that are not configured any more are deleted by comparison  *)
(* with the ids that the last start has recorded.                          *)
(***************************************************************************)
EXTENDS Naturals, FiniteSets

CONSTANTS
    Devices,    \* all devices that are ever configured
    Saves,      \* what is saved, and the configuration to begin with
    MaxSaves,   \* bound on saves
    MaxMishaps  \* bound on requests that fail and processes that die

RestartConstants ==
    /\ IsFiniteSet(Devices)
    /\ \A c \in Saves : c.devices \subseteq Devices /\ c.valid \in BOOLEAN
    /\ \E c \in Saves : c.valid
    /\ {MaxSaves, MaxMishaps} \subseteq Nat

VARIABLES
    file,     \* config.yaml: a configuration, marked as modified or not
    proc,     \* "down", a step of the start, "up" or "stopping"
    conf,     \* the configuration that the process has loaded
    managers, \* devices whose supervisor runs
    purges,   \* devices that each handler has yet to clear from the broker
    due,      \* is there a task that restarts the process
    retained, \* devices with retained topics on the broker (external)
    cloud,    \* the name of each topic, or NoTopic (external)
    recorded, \* bemfa_registered in the database
    todo,     \* entities that this step of the start has yet to deal with
    saves,    \* saves so far
    mishaps,  \* mishaps so far (auxiliary)
    refused,  \* has a request to the cloud failed (auxiliary)
    torn      \* has the process died while it wrote the file (auxiliary)

start == <<cloud, recorded, todo, refused>>
vars == <<file, proc, conf, managers, purges, due, retained, start, saves, mishaps,
          torn>>

NoTopic == "none"
Starting == {"delete", "register", "clear", "write", "record"}
Content(c) == [devices |-> c.devices, names |-> c.names]
File(c, modified) == [devices |-> c.devices, names |-> c.names,
                      valid |-> c.valid, modified |-> modified]

Init ==
    /\ \E c \in Saves : c.valid /\ file = File(c, FALSE)
    /\ proc = "up"
    /\ conf = file
    /\ managers = conf.devices /\ retained = conf.devices
    /\ purges = {} /\ due = FALSE
    /\ cloud = [d \in Devices |-> IF d \in conf.devices THEN conf.names ELSE NoTopic]
    /\ recorded = conf.devices
    /\ todo = {}
    /\ saves = 0 /\ mishaps = 0
    /\ refused = FALSE /\ torn = FALSE

-----------------------------------------------------------------------------
(* handle_config_save, also while the process is already stopping. *)

AcceptsAny(c) == TRUE  \* mutant
Accepts(c) == c.valid

MarkedNow(c) == c.names # file.names  \* mutant
Marked(c) == file.modified \/ c.names # file.names

Purge(id, left) == [id |-> id, left |-> left]

(* Nothing comes between the check and the replacement of the file.  The   *)
(* devices that are gone are those of the running process.                 *)
Save(c) ==
    /\ proc \in {"up", "stopping"} /\ saves < MaxSaves
    /\ Accepts(c)
    /\ saves' = saves + 1
    /\ file' = File(c, Marked(c))
    /\ purges' = purges \union {Purge(saves', conf.devices \ c.devices)}
    /\ UNCHANGED <<proc, conf, managers, due, retained, start, mishaps, torn>>

(* _purge_namespace, in a thread.  (The broker is connected: otherwise      *)
(* nothing is cleared, and nothing is reported either.)                    *)
ClearRetained(p, d) ==
    /\ d \in p.left
    /\ retained' = retained \ {d}
    /\ purges' = (purges \ {p}) \union {Purge(p.id, p.left \ {d})}
    /\ UNCHANGED <<file, proc, conf, managers, due, start, saves, mishaps, torn>>

(* Then the restart is scheduled.                                          *)
ScheduleNever(p) == FALSE  \* mutant
Schedule(p) == p.left = {}

PurgeEnds(p) ==
    /\ p.left = {}
    /\ purges' = purges \ {p}
    /\ due' = (due \/ Schedule(p))
    /\ UNCHANGED <<file, proc, conf, managers, retained, start, saves, mishaps, torn>>

-----------------------------------------------------------------------------
(* _restart, a second after that, whether or not other handlers are done.  *)

Restart ==
    /\ proc = "up" /\ due
    /\ proc' = "stopping"
    /\ UNCHANGED <<file, conf, managers, purges, due, retained, start, saves, mishaps,
                   torn>>

(* A manager that is stopped says that its charger is offline.             *)
StopManager(d) ==
    /\ proc = "stopping" /\ d \in managers
    /\ managers' = managers \ {d}
    /\ retained' = retained \union {d}
    /\ UNCHANGED <<file, proc, conf, purges, due, start, saves, mishaps, torn>>

(* A manager reports its charger's state.                                  *)
Report(d) ==
    /\ proc \in {"up", "stopping"} /\ d \in managers
    /\ retained' = retained \union {d}
    /\ UNCHANGED <<file, proc, conf, managers, purges, due, start, saves, mishaps,
                   torn>>

Gone ==
    /\ proc' = "down"
    /\ managers' = {} /\ purges' = {} /\ due' = FALSE /\ todo' = {}
    /\ UNCHANGED <<file, conf, retained, cloud, recorded, refused, saves>>

Exec ==
    /\ proc = "stopping" /\ managers = {}
    /\ Gone
    /\ UNCHANGED <<mishaps, torn>>

Die ==
    /\ proc # "down" /\ mishaps < MaxMishaps
    /\ mishaps' = mishaps + 1
    /\ torn' = (torn \/ proc = "write")
    /\ Gone

-----------------------------------------------------------------------------
(* on_startup and setup_bemfa. *)

StaleOnes == recorded \ file.devices

(* load_config refuses a file that is not valid.                           *)
Boot ==
    /\ proc = "down" /\ file.valid
    /\ proc' = "delete"
    /\ conf' = file
    /\ todo' = StaleOnes
    /\ UNCHANGED <<file, managers, purges, due, retained, cloud, recorded, refused,
                   saves, mishaps, torn>>

(* A request to the cloud, which may fail, done or not.                    *)
Request(d, outcome, otherwise) ==
    /\ todo' = todo \ {d}
    /\ \/ cloud' = [cloud EXCEPT ![d] = outcome] /\ UNCHANGED <<mishaps, refused>>
       \/ /\ mishaps < MaxMishaps
          /\ mishaps' = mishaps + 1 /\ refused' = TRUE
          /\ \E o \in otherwise : cloud' = [cloud EXCEPT ![d] = o]
    /\ UNCHANGED <<file, proc, conf, managers, purges, due, retained, recorded, saves,
                   torn>>

(* delete_topics *)
DeleteTopic(d) ==
    /\ proc = "delete" /\ d \in todo
    /\ Request(d, NoTopic, {cloud[d]})

(* _register_topics: creating a topic that exists changes nothing; one     *)
(* whose names were modified is deleted first.                             *)
Created(name) == IF name = NoTopic THEN conf.names ELSE name

RegisterTopic(d) ==
    /\ proc = "register" /\ d \in todo
    /\ IF conf.modified
       THEN Request(d, conf.names, {cloud[d], NoTopic})
       ELSE Request(d, Created(cloud[d]), {cloud[d]})

GoTo(step, work) ==
    /\ proc' = step
    /\ todo' = work
    /\ UNCHANGED <<conf, purges, due, retained, cloud, refused, saves, mishaps, torn>>

Deleted ==
    /\ proc = "delete" /\ todo = {}
    /\ GoTo("register", conf.devices)
    /\ UNCHANGED <<file, managers, recorded>>

Registered ==
    /\ proc = "register" /\ todo = {}
    /\ GoTo("clear", {})
    /\ UNCHANGED <<file, managers, recorded>>

(* _clear_bemfa_modified, whether or not the requests succeeded: write_text*)
(* empties the file and fills it again.                                    *)
OpenFile ==
    /\ proc = "clear"
    /\ IF conf.modified
       THEN GoTo("write", {}) /\ file' = [file EXCEPT !.valid = FALSE]
       ELSE GoTo("record", {}) /\ UNCHANGED file
    /\ UNCHANGED <<managers, recorded>>

WriteFile ==
    /\ proc = "write"
    /\ GoTo("record", {})
    /\ file' = File([conf EXCEPT !.valid = TRUE], FALSE)
    /\ UNCHANGED <<managers, recorded>>

(* _save_bemfa_registered, and then the supervisors are started.           *)
Record ==
    /\ proc = "record"
    /\ GoTo("up", {})
    /\ recorded' = conf.devices
    /\ managers' = conf.devices
    /\ UNCHANGED file

-----------------------------------------------------------------------------
Starts ==
    \/ Boot \/ Deleted \/ Registered \/ OpenFile \/ WriteFile \/ Record
    \/ \E d \in Devices : DeleteTopic(d) \/ RegisterTopic(d)

Stops ==
    \/ Restart \/ Exec
    \/ \E d \in Devices : StopManager(d)
    \/ \E p \in purges : PurgeEnds(p) \/ \E d \in Devices : ClearRetained(p, d)

Next ==
    \/ \E c \in Saves : Save(c)
    \/ Stops \/ Starts \/ Die
    \/ \E d \in Devices : Report(d)

Spec == Init /\ [][Next]_vars

(* Tasks and threads run; a process that ends is started again.            *)
FairSpec == Spec /\ WF_vars(Stops) /\ WF_vars(Starts)

-----------------------------------------------------------------------------
(* Steps are taken in order, and nothing runs in a process that is down.   *)
TypeOK ==
    /\ proc \in Starting \union {"down", "up", "stopping"}
    /\ file.devices \subseteq Devices
    /\ managers \subseteq conf.devices
    /\ todo # {} => proc \in {"delete", "register"}
    /\ proc \notin {"up", "stopping"} => managers = {} /\ purges = {} /\ ~due

(* The file is one that the program starts with, whatever was saved, unless*)
(* the process died in the middle of clearing the mark.                    *)
FileBoots == proc # "write" => file.valid \/ torn

(* Once the program is up, the cloud has the configured entities and no    *)
(* other, under the configured names, whatever was saved in a row and      *)
(* wherever the process died; a request that failed may have left others.  *)
CloudIsConfigured ==
    proc = "up" /\ ~refused =>
        cloud = [d \in Devices |-> IF d \in conf.devices THEN conf.names ELSE NoTopic]

(* What is saved is what the program comes to run with.                    *)
Differs == Content(conf) # Content(file)
SavedIsRun == Differs ~> ~Differs

(* purge_removed_devices: the topics of devices that are gone are cleared, *)
(* since they would go on as "a ghost that for ever stays at its last      *)
(* report".                                                                *)
NoGhosts == proc = "up" => retained \subseteq conf.devices
================================================================================
