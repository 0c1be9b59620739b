----------------------------- MODULE StatusStream -----------------------------
(***************************************************************************)
(* What a browser is told of the devices: the event stream, SSEEmitter and *)
(* handle_sse in ha_server.py.                                             *)
(*                                                                         *)
(* A status is kept beside the client's queue, one per device, and only    *)
(* the latest; any other event of the device first moves its status into   *)
(* the queue.  A full queue drops its oldest entry.                        *)
(***************************************************************************)
EXTENDS Integers, Sequences, FiniteSets

CONSTANTS
    Devices,   \* the devices of the registry, more than one
    QueueMax,  \* MAX_QUEUE_SIZE
    MaxStatus, \* bound on the statuses of a device
    MaxEvents  \* bound on other events

StreamConstants ==
    /\ IsFiniteSet(Devices)
    /\ {QueueMax, MaxStatus} \subseteq Nat \ {0} /\ MaxEvents \in Nat

VARIABLES
    latest,    \* each device's statuses so far
    events,    \* other events so far
    client,    \* is a client connected
    pending,   \* _pending_status of its queue: a status, or 0
    queue,     \* its queue
    toFlush,   \* devices that handle_sse has yet to flush in this round
    told,      \* the status that each device's client was last told (auxiliary)
    dropped    \* statuses dropped with a full queue (auxiliary)

vars == <<latest, events, client, pending, queue, toFlush, told, dropped>>

First == CHOOSE d \in Devices : TRUE  \* the primary device
Nothing == [d \in Devices |-> 0]

Init ==
    /\ latest = [d \in Devices |-> 1]
    /\ events = 0
    /\ client = FALSE
    /\ pending = Nothing
    /\ queue = <<>>
    /\ toFlush = {}
    /\ told = Nothing
    /\ dropped = {}

-----------------------------------------------------------------------------
(* SSEEmitter. *)

Entry(d, n) == [of |-> d, status |-> n]
Over(q) == IF Len(q) > QueueMax THEN Len(q) - QueueMax ELSE 0

(* _put_or_drop, for several entries.                                      *)
PutAll(entries) ==
    LET q == queue \o entries
    IN /\ queue' = SubSeq(q, Over(q) + 1, Len(q))
       /\ dropped' = dropped \union {q[i] : i \in 1..Over(q)}

(* A status is emitted: it replaces the one that waits.                    *)
EmitStatus(d) ==
    /\ latest[d] < MaxStatus
    /\ latest' = [latest EXCEPT ![d] = @ + 1]
    /\ pending' = IF client THEN [pending EXCEPT ![d] = latest'[d]] ELSE pending
    /\ UNCHANGED <<events, client, queue, toFlush, told, dropped>>

NoStatus(d) == <<>>  \* mutant
StatusFirst(d) == IF pending[d] = 0 THEN <<>> ELSE <<Entry(d, pending[d])>>

EmitEvent(d) ==
    /\ events < MaxEvents
    /\ events' = events + 1
    /\ IF client
       THEN PutAll(StatusFirst(d) \o <<Entry(d, 0)>>)
            /\ pending' = [pending EXCEPT ![d] = 0]
       ELSE UNCHANGED <<queue, dropped, pending>>
    /\ UNCHANGED <<latest, client, toFlush, told>>

-----------------------------------------------------------------------------
(* handle_sse. *)

(* The client gets the whole state to begin with.                          *)
Connect ==
    /\ ~client
    /\ client' = TRUE
    /\ told' = latest
    /\ toFlush' = Devices
    /\ UNCHANGED <<latest, events, pending, queue, dropped>>

(* Before each wait every device's status is sent.                         *)
Flush(d) ==
    /\ client /\ d \in toFlush
    /\ toFlush' = toFlush \ {d}
    /\ told' = IF pending[d] = 0 THEN told ELSE [told EXCEPT ![d] = pending[d]]
    /\ pending' = [pending EXCEPT ![d] = 0]
    /\ UNCHANGED <<latest, events, client, queue, dropped>>

(* One event, or a keepalive if there is none for long.                    *)
Send ==
    /\ client /\ toFlush = {}
    /\ toFlush' = Devices
    /\ IF queue = <<>>
       THEN UNCHANGED <<queue, told>>
       ELSE /\ queue' = Tail(queue)
            /\ told' = IF Head(queue).status = 0 THEN told
                       ELSE [told EXCEPT ![Head(queue).of] = Head(queue).status]
    /\ UNCHANGED <<latest, events, client, pending, dropped>>

DropFirst == [pending EXCEPT ![First] = 0]  \* mutant
DropBuckets == Nothing

Disconnect ==
    /\ client
    /\ client' = FALSE
    /\ pending' = DropBuckets
    /\ queue' = <<>> /\ toFlush' = {} /\ dropped' = {}
    /\ told' = Nothing
    /\ UNCHANGED <<latest, events>>

-----------------------------------------------------------------------------
Next ==
    \/ \E d \in Devices : EmitStatus(d) \/ EmitEvent(d) \/ Flush(d)
    \/ Connect \/ Send \/ Disconnect

Spec == Init /\ [][Next]_vars

(* The handler's coroutine goes on as long as its client is there.         *)
FairSpec == Spec /\ WF_vars(Send) /\ \A d \in Devices : WF_vars(Flush(d))

-----------------------------------------------------------------------------
(* The queue keeps to its size and the statuses are ones that were emitted.*)
TypeOK ==
    /\ latest \in [Devices -> 1..MaxStatus]
    /\ client \in BOOLEAN
    /\ \A d \in Devices : pending[d] \in 0..latest[d] /\ told[d] \in 0..latest[d]
    /\ Len(queue) <= QueueMax
    /\ toFlush \subseteq Devices

(* A client that is gone leaves nothing behind, whatever devices had       *)
(* statuses for it.                                                        *)
NothingLeftBehind == ~client => pending = Nothing /\ queue = <<>>

(* The latest status of a device reaches the client, whatever happens to   *)
(* events, unless a newer one replaces it, the queue overflows or the      *)
(* client goes.                                                            *)
Reached(d, n) ==
    told[d] = n \/ latest[d] > n \/ Entry(d, n) \in dropped \/ ~client
LatestReaches ==
    \A d \in Devices : \A n \in 1..MaxStatus :
        (client /\ pending[d] = n) ~> Reached(d, n)

(* emit: "stale statuses are replaced, never enqueued alongside newer      *)
(* statuses", and handle_sse: "stale status never delivered".              *)
NeverBackwards ==
    [][client /\ client' => \A d \in Devices : told'[d] >= told[d]]_told
=============================================================================
