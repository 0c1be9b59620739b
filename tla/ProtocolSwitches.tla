--------------------------- MODULE ProtocolSwitches ---------------------------
(***************************************************************************)
(* The fast-charging protocol switches of a charger, which are bits of one *)
(* property (PIID 21): handle_protocol (ha_server.py), the manager's SET   *)
(* command (ble_manager.py) and the state's copy of the value (state.py).  *)
(*                                                                         *)
(* A toggle computes the whole value from the copy; the command that       *)
(* writes it is queued for the link's task and may outlive its request.    *)
(***************************************************************************)
EXTENDS Naturals, Sequences, FiniteSets

CONSTANTS
    Clients,     \* requests
    Switches,    \* bits of the switches
    PortOf(_),   \* the port of a switch
    Other,       \* a bit that is not a switch
    Writes,      \* values that are written or set by others
    MaxCommands, \* CMD_QUEUE_MAXSIZE
    MaxMishaps   \* bound on changes by others and failures of a command

Bits == Switches \union {Other}

NoOne == "no one"

SwitchesConstants ==
    /\ IsFiniteSet(Switches) /\ IsFiniteSet(Clients) /\ NoOne \notin Clients
    /\ Other \notin Switches
    /\ Writes \subseteq SUBSET Bits
    /\ {MaxCommands, MaxMishaps} \subseteq Nat

VARIABLES
    charger,  \* the charger's value, as the set of bits that are on (external)
    copy,     \* _protocol_extend
    commands, \* cmd_queue: who waits for it, the value, and what it is to flip
    resuming, \* the request whose command has just succeeded, and its value
    astray,   \* has the charger's value changed behind the copy (auxiliary)
    mishaps   \* such changes so far (auxiliary)

vars == <<charger, copy, commands, resuming, astray, mishaps>>

Command(c, v, flips) == [by |-> c, val |-> v, flips |-> flips]

Init ==
    /\ charger \in Writes
    /\ copy = {}          \* until the settings are read
    /\ commands = <<>>
    /\ resuming = {}
    /\ astray = TRUE
    /\ mishaps = 0

-----------------------------------------------------------------------------
(* Requests. *)

Flip(v, s) == IF s \in v THEN v \ {s} ELSE v \union {s}

EncodeOnly(v, s) == {x \in Flip(v, s) \ {Other} : PortOf(x) = PortOf(s)}  \* mutant
(* All switches are encoded again, and nothing else.                       *)
Encode(v, s) == Flip(v, s) \ {Other}

Free(c) ==
    /\ \A i \in DOMAIN commands : commands[i].by # c
    /\ \A r \in resuming : r.by # c
    /\ Len(commands) < MaxCommands

Send(m) ==
    /\ Free(m.by)
    /\ commands' = Append(commands, m)
    /\ UNCHANGED <<charger, copy, resuming, astray, mishaps>>

(* For the properties a command carries the switch that it is to flip, if  *)
(* the copy is right and no other write is on its way.                     *)
Toggle(c, s) ==
    Send(Command(c, Encode(copy, s),
                 IF astray \/ commands # <<>> THEN {} ELSE {s}))

(* Switches of some ports, the others' being encoded as off; or any value. *)
Write(c, v) == Send(Command(c, v, {}))

(* The request ends; the command stays queued.                             *)
TimeOut(i) ==
    /\ commands[i].by # NoOne
    /\ commands' = [commands EXCEPT ![i].by = NoOne]
    /\ UNCHANGED <<charger, copy, resuming, astray, mishaps>>

(* The answer to a request that is still there, which writes the copy too. *)
Resume(r) ==
    /\ resuming' = resuming \ {r}
    /\ copy' = r.val
    /\ UNCHANGED <<charger, commands, astray, mishaps>>

-----------------------------------------------------------------------------
(* The link's task.  A handler that it has woken runs long before the next *)
(* exchange with the charger is over.                                      *)

NotSynced(v) == copy  \* mutant
Synced(v) == v

Execute ==
    /\ commands # <<>> /\ resuming = {}
    /\ LET m == Head(commands)
       IN /\ charger' = m.val
          /\ copy' = Synced(m.val)
          /\ astray' = FALSE
          /\ resuming' = IF m.by = NoOne THEN {} ELSE {[by |-> m.by, val |-> m.val]}
    /\ commands' = Tail(commands)
    /\ UNCHANGED mishaps

(* No answer, whether or not the charger has got the command.              *)
Fail ==
    /\ commands # <<>> /\ resuming = {} /\ mishaps < MaxMishaps
    /\ charger' \in {charger, Head(commands).val}
    /\ astray' = (astray \/ charger' # charger)
    /\ commands' = Tail(commands)
    /\ mishaps' = mishaps + 1
    /\ UNCHANGED <<copy, resuming>>

(* The periodic read; if it fails, nothing changes.                        *)
Refresh ==
    /\ resuming = {}
    /\ copy' = charger
    /\ astray' = FALSE
    /\ UNCHANGED <<charger, commands, resuming, mishaps>>

(* The charger's buttons or its vendor's app: commands that were computed  *)
(* before are no longer held to what they were to flip.                    *)
Outside(v) ==
    /\ mishaps < MaxMishaps
    /\ charger' = v
    /\ astray' = TRUE
    /\ commands' = [i \in DOMAIN commands |-> [commands[i] EXCEPT !.flips = {}]]
    /\ mishaps' = mishaps + 1
    /\ UNCHANGED <<copy, resuming>>

-----------------------------------------------------------------------------
Next ==
    \/ \E c \in Clients :
          \/ \E s \in Switches : Toggle(c, s)
          \/ \E v \in Writes : Write(c, v)
    \/ \E i \in DOMAIN commands : TimeOut(i)
    \/ \E r \in resuming : Resume(r)
    \/ Execute \/ Fail \/ Refresh
    \/ \E v \in Writes : Outside(v)

Spec == Init /\ [][Next]_vars

-----------------------------------------------------------------------------
(* The values are sets of bits, and the queue keeps to its size.           *)
TypeOK ==
    /\ charger \subseteq Bits /\ copy \subseteq Bits
    /\ Len(commands) <= MaxCommands
    /\ \A i \in DOMAIN commands :
          commands[i].by \in Clients \union {NoOne} /\ commands[i].val \subseteq Bits
    /\ Cardinality(resuming) <= 1

(* A toggle flips its switch and none of another port or protocol, as long *)
(* as nobody else wrote since the copy it started from was right.          *)
OnlyItsSwitch ==
    \A i \in DOMAIN commands : \A s \in commands[i].flips :
        commands[i].val \intersect Switches = Flip(charger, s) \intersect Switches

(* The copy that the next toggle starts from is what the charger has been  *)
(* told, even by a command that outlived its request, and whichever of the *)
(* command and its request wrote the copy last; only a change that nobody  *)
(* reported can set them apart.                                            *)
CopyIsTrue == ~astray => copy = charger
===============================================================================
