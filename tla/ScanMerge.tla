------------------------------- MODULE ScanMerge -------------------------------
(***************************************************************************)
(* The merged scan (AdapterCoordinator.find_device): those who look for    *)
(* the same device at the same time share one future, those who look for   *)
(* different ones share one scan.                                          *)
(*                                                                         *)
(* The first caller for an address leads: it makes the future, waits for   *)
(* the lock and scans, and what it finds answers every future that is      *)
(* pending.  The others follow.  Every caller is a task that may be        *)
(* cancelled (a stop, or a rebuild of its manager); a task that is         *)
(* cancelled while it waits for a future cancels the future.               *)
(***************************************************************************)
EXTENDS Integers, Sequences, FiniteSets, SequencesExt

CONSTANTS
    Callers,        \* tasks that look for a device, again and again
    Addresses,      \* the devices
    Target(_)       \* whom a caller looks for

None == "none"

ScanConstants ==
    /\ IsFiniteSet(Callers) /\ None \notin Callers
    /\ \A c \in Callers : Target(c) \in Addresses

VARIABLES
    caller,     \* "out", "follows", or leading and "queued" or "scans"
    leader,     \* whose future a caller waits for
    future,     \* the future that a leader made: "open", "done" or "cancelled"
    pending,    \* _pending: the leader of each address, or None
    line,       \* those in the queue of scan_lock, its holder first
    stopped,    \* history: calls during which one for that device was cancelled
    dropped     \* history: who came back without an answer, and not for that

vars == <<caller, leader, future, pending, line, stopped, dropped>>

Init ==
    /\ caller = [c \in Callers |-> "out"]
    /\ leader = [c \in Callers |-> None]
    /\ future = [c \in Callers |-> None]
    /\ pending = [a \in Addresses |-> None]
    /\ line = <<>>
    /\ stopped = {} /\ dropped = {}

Leads(c) == caller[c] \in {"queued", "scans"}
Followers(c) == {f \in Callers : caller[f] = "follows" /\ leader[f] = c}

(* The callers in S come back, those in bare without an answer.  A call    *)
(* for the same device that was cancelled is an excuse.                    *)
Return(S, bare, excused) ==
    /\ caller' = [c \in Callers |-> IF c \in S THEN "out" ELSE caller[c]]
    /\ leader' = [c \in Callers |-> IF c \in S THEN None ELSE leader[c]]
    /\ stopped' = (stopped \cup excused) \ S
    /\ dropped' = dropped \cup (bare \ (stopped \cup excused))

-----------------------------------------------------------------------------
Joinable(a) == pending[a] # None /\ future[pending[a]] = "open"

Call(c) ==
    /\ caller[c] = "out"
    /\ UNCHANGED <<stopped, dropped>>
    /\ \/ /\ Joinable(Target(c))
          /\ caller' = [caller EXCEPT ![c] = "follows"]
          /\ leader' = [leader EXCEPT ![c] = pending[Target(c)]]
          /\ UNCHANGED <<future, pending, line>>
       \/ /\ ~Joinable(Target(c))
          /\ caller' = [caller EXCEPT ![c] = "queued"]
          /\ leader' = [leader EXCEPT ![c] = c]
          /\ future' = [future EXCEPT ![c] = "open"]
          /\ pending' = [pending EXCEPT ![Target(c)] = c]
          /\ line' = Append(line, c)

(* The leader takes its future off the board, unless another one is there, *)
(* and gives up the lock.                                                  *)
Leave(c) ==
    /\ pending' = [pending EXCEPT ![Target(c)] = IF @ = c THEN None ELSE @]
    /\ \E i \in DOMAIN line : line[i] = c /\ line' = RemoveAt(line, i)

Bare(c) == {d \in {c} : future[d] = "cancelled"}

(* With the lock: another leader's scan may have answered meanwhile.       *)
Enter(c) ==
    /\ caller[c] = "queued" /\ line # <<>> /\ Head(line) = c
    /\ \/ /\ future[c] # "open"
          /\ Return({c}, Bare(c), {})
          /\ future' = [future EXCEPT ![c] = None]
          /\ Leave(c)
       \/ /\ future[c] = "open"
          /\ caller' = [caller EXCEPT ![c] = "scans"]
          /\ UNCHANGED <<leader, future, pending, line, stopped, dropped>>

(* The scan ends, with whatever it found: every pending future that is     *)
(* still open is set, and its followers go on.                             *)
Served(c) ==
    {d \in Callers : \E a \in Addresses : pending[a] = d /\ future[d] = "open"}

Scanned(c) ==
    /\ caller[c] = "scans"
    /\ Return((UNION {Followers(d) : d \in Served(c)}) \cup {c}, Bare(c), {})
    /\ future' = [d \in Callers |->
          IF d = c THEN None ELSE IF d \in Served(c) THEN "done" ELSE future[d]]
    /\ Leave(c)

-----------------------------------------------------------------------------
Same(c) == {d \in Callers : Target(d) = Target(c) /\ caller[d] # "out"}

(* A follower is cancelled, and with it the future it waits for.           *)
CancelFollower(c) ==
    /\ caller[c] = "follows"
    /\ Return(Followers(leader[c]), Followers(leader[c]), Same(c))
    /\ future' = [future EXCEPT ![leader[c]] = "cancelled"]
    /\ UNCHANGED <<pending, line>>

(* A leader is cancelled, in the queue or in its scan: its followers are   *)
(* told that nothing was found, and try again.                             *)
Forgotten(c) == {c}  \* mutant
AllOfThem(c) == {c} \cup {d \in Callers : caller[d] = "follows"}  \* mutant
Released(c) == {c} \cup Followers(c)

CancelLeader(c) ==
    /\ Leads(c)
    /\ Return(Released(c), Released(c), Same(c))
    /\ future' = [future EXCEPT ![c] = None]
    /\ Leave(c)

Goes(c) == Enter(c) \/ Scanned(c)

Next == \E c \in Callers : Call(c) \/ Goes(c) \/ CancelFollower(c) \/ CancelLeader(c)

Spec == Init /\ [][Next]_vars /\ \A c \in Callers : WF_vars(Goes(c))

-----------------------------------------------------------------------------
(* The scan's variables have their types.                                  *)
TypeOK ==
    /\ caller \in [Callers -> {"out", "follows", "queued", "scans"}]
    /\ leader \in [Callers -> Callers \cup {None}]
    /\ future \in [Callers -> {None, "open", "done", "cancelled"}]
    /\ pending \in [Addresses -> Callers \cup {None}]
    /\ {line[i] : i \in DOMAIN line} \subseteq Callers
    /\ {stopped, dropped} \subseteq SUBSET Callers

(* A call only ends without an answer if it was cancelled itself, or       *)
(* another one for the same device was.                                    *)
AnsweredUnlessStopped == dropped = {}

(* Every call ends: nobody waits for ever for a future whose leader is     *)
(* gone (the finally of find_device).                                      *)
CallsEnd == \A c \in Callers : caller[c] # "out" ~> caller[c] = "out"
===============================================================================
