------------------------------ MODULE BemfaClient ------------------------------
(***************************************************************************)
(* The client of the Bemfa cloud (bemfa_client.py): its ping cycle, which  *)
(* reconnects after three lost pings, and its filter for echoes of the     *)
(* states that it publishes itself.                                        *)
(*                                                                         *)
(* paho's thread keeps the connection, reconnects it after a loss that it  *)
(* notices and calls back; a half-open connection it does not notice.  A   *)
(* ping is watched for 20 s and the next one is due after 30 s.            *)
(***************************************************************************)
EXTENDS Naturals, Sequences

CONSTANTS
    MaxLost,   \* MAX_PING_LOST
    MaxFlight, \* bound on messages on their way from the cloud
    MaxFlaws   \* bound on connections lost or refused

ClientConstants ==
    MaxLost \in Nat \ {0} /\ MaxFlight \in Nat \ {0} /\ MaxFlaws \in Nat

VARIABLES
    broker,   \* "none" without a client, "joining", "up" or half-"open"
    chains,   \* tasks of the ping cycle that are alive
    monitor,  \* _ping_receive_task: "none", "waiting" or "done"
    pingLost, \* _ping_lost
    pong,     \* is the answer to a ping on its way
    repair,   \* progress of _reconnect: "no", "leave" or "join"
    missing,  \* pings in a row without an answer in time (auxiliary)
    cache,    \* _state_cache of an entity, "none" as long as it has no entry
    flight,   \* messages of the entity on their way from the cloud
    grace,    \* less than 10 s after the connection
    overlap,  \* did the state change with a message on its way (auxiliary)
    fooled,   \* was an echo executed with neither that nor an empty cache (auxiliary)
    flaws     \* connections lost or refused so far (auxiliary)

ping == <<chains, monitor, pingLost, pong, repair, missing>>
echo == <<cache, flight, overlap, fooled>>
vars == <<broker, ping, echo, grace, flaws>>

States == {"on", "off"}
ConnectedIsUp == broker = "up"  \* mutant
Connected == broker \in {"up", "open"}

(* start() has connected, or has failed to.                                *)
Init ==
    /\ broker \in {"joining", "none"}
    /\ chains = 1 /\ monitor = "none" /\ pingLost = 0 /\ pong = FALSE
    /\ repair = "no" /\ missing = 0
    /\ cache = "none" /\ flight = <<>> /\ grace = FALSE
    /\ overlap = FALSE /\ fooled = FALSE
    /\ flaws = 0

-----------------------------------------------------------------------------
(* paho. *)

(* The entity's state is published, a default if none is known, which is   *)
(* not remembered; its echo comes back.                                    *)
Announced == IF cache = "none" THEN "off" ELSE cache

Joined ==
    /\ broker = "joining"
    /\ broker' = "up"
    /\ grace' = TRUE
    /\ flight' = IF Len(flight) < MaxFlight
                 THEN Append(flight, [state |-> Announced, own |-> TRUE]) ELSE flight
    /\ UNCHANGED <<ping, cache, overlap, fooled, flaws>>

(* It notices a loss and joins again by itself, or does not notice.        *)
LoseBroker ==
    /\ broker = "up" /\ flaws < MaxFlaws
    /\ broker' \in {"joining", "open"}
    /\ flaws' = flaws + 1
    /\ pong' = FALSE
    /\ flight' = <<>>
    /\ overlap' = FALSE
    /\ UNCHANGED <<chains, monitor, pingLost, repair, missing, cache, fooled, grace>>

-----------------------------------------------------------------------------
(* _start_ping_cycle. *)

Due == chains > 0 /\ monitor # "waiting"

(* Without a connection the cycle just goes on.                            *)
Ping ==
    /\ Due
    /\ IF Connected
       THEN monitor' = "waiting" /\ pong' = (broker = "up")
       ELSE UNCHANGED <<monitor, pong>>
    /\ UNCHANGED <<broker, chains, pingLost, repair, missing, echo, grace, flaws>>

PongUnheeded == pingLost  \* mutant
PongHeeded == IF monitor = "none" THEN pingLost ELSE 0

(* In time or late.                                                        *)
Pong ==
    /\ pong
    /\ pong' = FALSE
    /\ pingLost' = PongHeeded
    /\ monitor' = "none"
    /\ missing' = IF monitor = "none" THEN missing ELSE 0
    /\ UNCHANGED <<broker, chains, repair, echo, grace, flaws>>

ChainKept == chains  \* mutant
ChainCancelled == chains - 1
TooManyLost == pingLost + 1 = MaxLost

(* The answer has not come in time; the third time in a row the monitor    *)
(* goes on with _reconnect.                                                *)
PingTimeOut ==
    /\ monitor = "waiting"
    /\ missing' = missing + 1
    /\ IF TooManyLost
       THEN /\ pingLost' = 0
            /\ chains' = ChainCancelled
            /\ monitor' = "none"
            /\ repair' = "leave"
       ELSE /\ pingLost' = pingLost + 1
            /\ monitor' = "done"
            /\ UNCHANGED <<chains, repair>>
    /\ UNCHANGED <<broker, pong, echo, grace, flaws>>

Leave ==
    /\ repair = "leave"
    /\ broker' = "none"
    /\ repair' = "join"
    /\ pong' = FALSE
    /\ flight' = <<>>
    /\ overlap' = FALSE
    /\ UNCHANGED <<chains, monitor, pingLost, missing, cache, fooled, grace, flaws>>

(* If the connection is refused there is no client from now on.            *)
Join ==
    /\ repair = "join"
    /\ \/ broker' = "joining" /\ UNCHANGED flaws
       \/ broker' = "none" /\ flaws < MaxFlaws /\ flaws' = flaws + 1
    /\ repair' = "no"
    /\ chains' = chains + 1
    /\ missing' = 0
    /\ UNCHANGED <<monitor, pingLost, pong, echo, grace>>

-----------------------------------------------------------------------------
(* publish_state and _on_message. *)

NotCached(s) == cache  \* mutant
Cached(s) == s

(* The state of the port is published, changed or not, and its echo comes  *)
(* back.                                                                   *)
PublishState(s) ==
    /\ broker = "up" /\ Len(flight) < MaxFlight
    /\ cache' = Cached(s)
    /\ flight' = Append(flight, [state |-> s, own |-> TRUE])
    /\ overlap' = (overlap \/ flight # <<>>)
    /\ UNCHANGED <<broker, ping, fooled, grace, flaws>>

(* Somebody switches the entity in the cloud.                              *)
Switch(s) ==
    /\ broker = "up" /\ Len(flight) < MaxFlight
    /\ flight' = Append(flight, [state |-> s, own |-> FALSE])
    /\ overlap' = (overlap \/ flight # <<>>)
    /\ UNCHANGED <<broker, ping, cache, fooled, grace, flaws>>

(* Messages are ignored for some time after the connection, if they are    *)
(* what is published anyway, or right after another command; the others    *)
(* are commands.                                                           *)
Receive ==
    /\ broker = "up" /\ flight # <<>>
    /\ LET m == Head(flight)
       IN \/ (grace \/ m.state = cache) /\ UNCHANGED <<cache, fooled>>
          \/ ~grace /\ m.state # cache /\ UNCHANGED <<cache, fooled>>  \* debounced
          \/ /\ ~grace /\ m.state # cache
             /\ cache' = m.state
             /\ fooled' = (fooled \/ (m.own /\ ~overlap /\ cache # "none"))
    /\ flight' = Tail(flight)
    /\ overlap' = (overlap /\ Tail(flight) # <<>>)
    /\ UNCHANGED <<broker, ping, grace, flaws>>

GraceOver ==
    /\ grace /\ broker = "up"
    /\ grace' = FALSE
    /\ UNCHANGED <<broker, ping, echo, flaws>>

-----------------------------------------------------------------------------
Next ==
    \/ Joined \/ LoseBroker
    \/ Ping \/ Pong \/ PingTimeOut \/ Leave \/ Join
    \/ \E s \in States : PublishState(s) \/ Switch(s)
    \/ Receive \/ GraceOver

Spec == Init /\ [][Next]_vars

Timers == Ping \/ PingTimeOut \/ Leave \/ Join
FairSpec == Spec /\ WF_vars(Timers)

-----------------------------------------------------------------------------
(* The states are ones that the client knows, the counts within bounds.    *)
TypeOK ==
    /\ broker \in {"none", "joining", "up", "open"}
    /\ monitor \in {"none", "waiting", "done"}
    /\ pingLost \in 0..MaxLost - 1
    /\ repair \in {"no", "leave", "join"}
    /\ cache \in States \union {"none"} /\ Len(flight) <= MaxFlight
    /\ flaws \in 0..MaxFlaws

(* There is one ping cycle, but while reconnecting, when there is none: no *)
(* duplicate is left behind and none is lost.                              *)
OneCycle == chains = IF repair = "no" THEN 1 ELSE 0

(* A connection that works is given up only after as many pings in a row   *)
(* as it takes were not answered in time.                                  *)
OnlyWhenLost == repair # "no" => missing >= MaxLost

(* A connection that is half-open, which paho would not notice for many    *)
(* minutes, is given up after three pings.                                 *)
HalfOpenEnds == broker = "open" ~> broker # "open"

(* What the client publishes is not taken for a command when it comes back,*)
(* unless another message was on its way with it, or no state is known yet *)
(* and the message is the default that on_connect announces without        *)
(* remembering it.                                                         *)
EchoIsNoCommand == ~fooled
================================================================================
