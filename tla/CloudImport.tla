------------------------------ MODULE CloudImport ------------------------------
(***************************************************************************)
(* A login to the Xiaomi cloud and the import of devices with it: the      *)
(* session that ha_server.py keeps for it, its timer, and the threads that *)
(* use its client (xiaomi_cloud.py), which is not made for two at a time.  *)
(*                                                                         *)
(* Time passes in ticks.  A request has a limit; then its handler is       *)
(* cancelled, which gives its lock back, but does not end its thread.      *)
(***************************************************************************)
EXTENDS Naturals, FiniteSets

CONSTANTS
    Requests,  \* each of them made at most once
    Ttl,       \* XIAOMI_SCAN_TTL and XIAOMI_IMPORT_TTL, in ticks
    Limit,     \* of a request, 30 s
    Budget,    \* XIAOMI_IMPORT_BUDGET
    Connect,   \* the two parts of CLOUD_HTTP_TIMEOUT
    ReadTime,
    MaxCalls   \* bound on the calls of a request

Nobody == "nobody"

ImportConstants ==
    /\ IsFiniteSet(Requests) /\ Nobody \notin Requests
    /\ {Ttl, Limit, Budget, Connect, ReadTime, MaxCalls} \subseteq Nat \ {0}

VARIABLES
    timer,    \* ticks until the session is removed, or 0 if it has been
    scanned,  \* did _background_poll see the code being scanned
    listed,   \* is the list of devices stored in the session
    handlers, \* each request: "no", "lock", "run" or "done"
    threads,  \* what its thread has to do
    age,      \* ticks since the request was made
    lock,     \* who holds the session's lock, or Nobody
    cut       \* requests whose thread outlives their handler (auxiliary)

vars == <<timer, scanned, listed, handlers, threads, age, lock, cut>>

Ops == {"complete", "key", "import"}
Working(op, calls) == [op |-> op, calls |-> calls, busy |-> 0]
NoThread == Working("none", 0)

(* The login has shown its code, or is complete.                           *)
Init ==
    /\ timer = Ttl
    /\ scanned \in BOOLEAN /\ listed = scanned
    /\ handlers = [r \in Requests |-> "no"]
    /\ threads = [r \in Requests |-> NoThread]
    /\ age = [r \in Requests |-> 0]
    /\ lock = Nobody
    /\ cut = {}

Never == Ttl + 1  \* no timer is set
Disarm == IF timer = 0 THEN 0 ELSE Never  \* mutant
Revive == Ttl  \* mutant
(* _arm_xiaomi_timer *)
Arm == IF timer = 0 THEN 0 ELSE Ttl

Scan ==
    /\ ~scanned
    /\ scanned' = TRUE
    /\ UNCHANGED <<timer, listed, handlers, threads, age, lock, cut>>

-----------------------------------------------------------------------------
(* The handlers.  The session is looked up only here.                      *)

Answer(r) == handlers' = [handlers EXCEPT ![r] = "done"]

(* handle_xiaomi_qr_complete does not take the lock.                       *)
Complete(r, calls) ==
    /\ handlers[r] = "no" /\ timer > 0
    /\ IF scanned
       THEN /\ handlers' = [handlers EXCEPT ![r] = "run"]
            /\ threads' = [threads EXCEPT ![r] = Working("complete", calls)]
       ELSE Answer(r) /\ UNCHANGED threads
    /\ UNCHANGED <<timer, scanned, listed, age, lock, cut>>

(* handle_xiaomi_beaconkey and handle_xiaomi_import, for listed devices.   *)
Ask(r, op, calls) ==
    /\ handlers[r] = "no" /\ timer > 0
    /\ op = "key" => calls = 1
    /\ op = "import" => listed
    /\ handlers' = [handlers EXCEPT ![r] = "lock"]
    /\ threads' = [threads EXCEPT ![r] = Working(op, calls)]
    /\ UNCHANGED <<timer, scanned, listed, age, lock, cut>>

Unlocked == TRUE  \* mutant
LockIsFree == lock = Nobody

Acquire(r) ==
    /\ handlers[r] = "lock" /\ LockIsFree
    /\ lock' = r
    /\ handlers' = [handlers EXCEPT ![r] = "run"]
    /\ UNCHANGED <<timer, scanned, listed, threads, age, cut>>

(* The thread is done: the answer, and another time to import.             *)
Finish(r) ==
    /\ threads[r].op # "none" /\ threads[r].calls = 0
    /\ threads' = [threads EXCEPT ![r] = NoThread]
    /\ IF handlers[r] = "run"
       THEN /\ Answer(r)
            /\ lock' = IF lock = r THEN Nobody ELSE lock
            /\ listed' = (listed \/ threads[r].op = "complete")
            /\ timer' = Arm
       ELSE UNCHANGED <<handlers, lock, listed, timer>>
    /\ UNCHANGED <<scanned, age, cut>>

(* request_timeout_middleware *)
CutOff(r) ==
    /\ handlers[r] \in {"lock", "run"} /\ age[r] = Limit
    /\ Answer(r)
    /\ lock' = IF lock = r THEN Nobody ELSE lock
    /\ cut' = IF handlers[r] = "run" THEN cut \union {r} ELSE cut
    /\ threads' = IF handlers[r] = "run" THEN threads
                  ELSE [threads EXCEPT ![r] = NoThread]
    /\ UNCHANGED <<timer, scanned, listed, age>>

-----------------------------------------------------------------------------
(* The threads. *)

Runs(r) == threads[r].calls > 0 /\ handlers[r] # "lock"

Shorter(a, b) == IF a < b THEN a ELSE b

(* The time that a call may take.  What is left of an import's budget      *)
(* bounds each of its parts.                                               *)
Left(r) == IF age[r] < Budget THEN Budget - age[r] ELSE 0
Slowest(r) ==
    IF threads[r].op = "import" THEN 2 * Shorter(Left(r), ReadTime)
    ELSE Connect + ReadTime

Called(r, ticks) ==
    IF ticks = 0 THEN [threads EXCEPT ![r].calls = @ - 1]
    ELSE [threads EXCEPT ![r].busy = ticks]

(* A call that takes some time, or none.  An import that has spent its     *)
(* budget skips its calls.                                                 *)
Call(r) ==
    /\ Runs(r) /\ threads[r].busy = 0
    /\ \E ticks \in 0..Slowest(r) : threads' = Called(r, ticks)
    /\ UNCHANGED <<timer, scanned, listed, handlers, age, lock, cut>>

(* A tick: nothing that is due waits.                                      *)
Counted(t) ==
    CASE t.busy > 1 -> [t EXCEPT !.busy = @ - 1]
      [] t.busy = 1 -> [t EXCEPT !.busy = 0, !.calls = @ - 1]
      [] OTHER -> t

Waits(r) == handlers[r] \in {"lock", "run"}

Tick ==
    /\ timer \in 1..Ttl \/ \E r \in Requests : threads[r].op # "none"
    /\ \A r \in Requests :
          /\ Waits(r) => age[r] < Limit
          /\ Runs(r) => threads[r].busy > 0
          /\ threads[r].op # "none" => threads[r].calls > 0
          /\ ~(handlers[r] = "lock" /\ LockIsFree)
    /\ timer' = IF timer \in 1..Ttl THEN timer - 1 ELSE timer
    /\ threads' = [r \in Requests |->
                      IF Runs(r) THEN Counted(threads[r]) ELSE threads[r]]
    /\ age' = [r \in Requests |-> IF Waits(r) THEN age[r] + 1 ELSE age[r]]
    /\ UNCHANGED <<scanned, listed, handlers, lock, cut>>

-----------------------------------------------------------------------------
Work(r) == Acquire(r) \/ Finish(r) \/ CutOff(r) \/ Call(r)

Next ==
    \/ Scan \/ Tick
    \/ \E r \in Requests :
          \/ Work(r)
          \/ \E calls \in 1..MaxCalls :
                Complete(r, calls) \/ \E op \in {"key", "import"} : Ask(r, op, calls)

Spec == Init /\ [][Next]_vars

Goes == Tick \/ \E r \in Requests : Work(r)
FairSpec == Spec /\ WF_vars(Goes)

-----------------------------------------------------------------------------
(* Threads belong to requests, and only a request that runs holds the lock.*)
TypeOK ==
    /\ timer \in 0..Ttl
    /\ \A r \in Requests :
          /\ handlers[r] \in {"no", "lock", "run", "done"}
          /\ age[r] \in 0..Limit
          /\ threads[r].calls \in 0..MaxCalls
    /\ lock # Nobody => handlers[lock] = "run"

(* "requests.Session is not thread-safe": as long as no request was cut    *)
(* off while its thread ran, keys are fetched by one thread at a time.     *)
Fetching == {r \in Requests : Runs(r) /\ threads[r].op \in {"key", "import"}}
OneFetches == cut = {} => Cardinality(Fetching) <= 1

(* A session does not stay for ever, with its client and its token.        *)
SessionEnds == timer > 0 ~> timer = 0

(* One that has expired is not brought back by a request that outlives it. *)
ExpiredStaysExpired == [][timer = 0 => timer' = 0]_vars
================================================================================
