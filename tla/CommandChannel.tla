--------------------------- MODULE CommandChannel ---------------------------
(***************************************************************************)
(* Commands on their way to the charger and back: send_command, the        *)
(* command loop and _handle_port_command (ble_manager.py), and the         *)
(* request-and-answer exchanges of send_miot_command (controller.py).      *)
(*                                                                         *)
(* The switches of all ports are one bit mask, property 16, so switching a *)
(* port is a GET followed by a SET.  The command loop runs one command at  *)
(* a time, but answers are matched by kind and property only: a charger    *)
(* that answers after the time-out is heard by the next exchange of that   *)
(* kind.  A frame that is already in the inbox when an exchange begins is  *)
(* discarded.                                                              *)
(*                                                                         *)
(* The mask is the set of ports that are on.  The ACK and Result frames of *)
(* a SET are one answer, with or without the value that was set.           *)
(***************************************************************************)
EXTENDS Naturals, Sequences, FiniteSets, SequencesExt

CONSTANTS
    Ports,       \* the charger's ports
    Calls,       \* calls of send_command
    Wants,       \* what they may ask for, see Requests
    QueueSize,   \* CMD_QUEUE_MAXSIZE
    MaxOutside,  \* bound on switches by the charger's own buttons and timers
    MaxBreaks    \* bound on lost links

(* One port, or all of them, to be switched on or off.                     *)
Requests == [ports : {{p} : p \in Ports} \union {Ports}, on : BOOLEAN]

ASSUME ChannelAssumption ==
    /\ IsFiniteSet(Ports) /\ IsFiniteSet(Calls)
    /\ Wants \subseteq [Calls -> Requests]
    /\ QueueSize \in Nat \ {0}
    /\ {MaxOutside, MaxBreaks} \subseteq Nat

VARIABLES
    link,    \* is there a controller with an authenticated link
    mask,    \* property 16 in the charger: the ports that are on (external)
    cache,   \* state.settings["16"], or Unknown
    want,    \* what each call asks for: [ports, on]
    place,   \* where its command is: "new", "putting", "queue", "loop", "gone"
    queue,   \* cmd_queue
    run,     \* the command loop: its step, call and read-modify-write data
    wire,    \* requests the charger has not answered (external)
    inbox,   \* answers in _notify_queues["cmd_recv"]
    outside, \* switches from outside so far (auxiliary)
    breaks,  \* lost links so far (auxiliary)
    answer,  \* what each call was answered: "none", "ok" or "failed"
    queued, executed, met, doubtful \* see CommandService (auxiliary)

callers == <<want, place, queue, queued>>
charger == <<mask, wire, executed, met>>
bounds == <<outside, breaks>>
vars == <<link, cache, callers, run, charger, inbox, doubtful, answer, bounds>>

Unknown == {"unknown"}
NoCall == "none"
Resting == [step |-> "idle", call |-> NoCall, base |-> {}, sure |-> FALSE]

(* What a call makes of the mask; for port "all" it does not depend on it. *)
Modify(c, base) ==
    IF want[c].on THEN base \union want[c].ports ELSE base \ want[c].ports
ForAll(c) == want[c].ports = Ports

Init ==
    /\ link = TRUE
    /\ mask = Ports       \* a charger that has just been powered
    /\ cache = Unknown
    /\ want \in Wants
    /\ place = [c \in Calls |-> "new"]
    /\ queue = <<>>
    /\ run = Resting
    /\ wire = <<>>
    /\ inbox = <<>>
    /\ outside = 0
    /\ breaks = 0
    /\ answer = [c \in Calls |-> "none"]
    /\ queued = <<>> /\ executed = <<>>
    /\ met = {} /\ doubtful = {}

-----------------------------------------------------------------------------
(* send_command. *)

ReplyAgain(c, a) == [answer EXCEPT ![c] = a]  \* mutant
Reply(c, a) == [answer EXCEPT ![c] = IF @ = "none" THEN a ELSE @]

(* Refused at once while there is no link; otherwise the caller waits for  *)
(* room in the queue, without a time-out.                                  *)
Ask(c) ==
    /\ place[c] = "new"
    /\ place' = [place EXCEPT ![c] = IF link THEN "putting" ELSE "gone"]
    /\ answer' = IF link THEN answer ELSE Reply(c, "failed")
    /\ UNCHANGED <<link, cache, want, queue, queued, run, charger, inbox>>
    /\ UNCHANGED <<doubtful, bounds>>

AlwaysRoom == TRUE  \* mutant
RoomForOneLess == Len(queue) < QueueSize - 1  \* mutant
Room == Len(queue) < QueueSize

Put(c) ==
    /\ place[c] = "putting"
    /\ Room
    /\ place' = [place EXCEPT ![c] = "queue"]
    /\ queue' = Append(queue, c)
    /\ queued' = Append(queued, c)
    /\ UNCHANGED <<link, cache, want, run, charger, inbox, doubtful, answer>>
    /\ UNCHANGED bounds

BeingRun(c) == place[c] = "loop"  \* mutant
OnItsWay(c) == place[c] \in {"queue", "loop"}

(* The caller's own time-out leaves the command where it is.               *)
GiveUp(c) ==
    /\ OnItsWay(c)
    /\ answer[c] = "none"
    /\ answer' = Reply(c, "failed")
    /\ UNCHANGED <<link, cache, callers, run, charger, inbox, doubtful, bounds>>

-----------------------------------------------------------------------------
(* The command loop. *)

Kept(frames) == frames  \* mutant
Drained(frames) == <<>>

(* send_miot_command: discard what has arrived, write the request.  An     *)
(* answer the charger still owes makes this exchange doubtful.             *)
Send(c, request) ==
    /\ inbox' = Drained(inbox)
    /\ wire' = Append(wire, request)
    /\ doubtful' = IF wire = <<>> THEN doubtful ELSE doubtful \union {c}

Get(c) == [op |-> "get", call |-> c, set |-> {}, base |-> {}, sure |-> FALSE]
Set(c, base, sure) ==
    [op |-> "set", call |-> c, set |-> Modify(c, base), base |-> base,
     sure |-> sure]

SendSet(c, base, sure) ==
    /\ Send(c, Set(c, base, sure /\ wire = <<>>))
    /\ run' = [step |-> "set", call |-> c, base |-> base, sure |-> FALSE]

Finish(c, a) ==
    /\ run' = Resting
    /\ place' = [place EXCEPT ![c] = "gone"]
    /\ answer' = Reply(c, a)

TakeCommand ==
    /\ link /\ run.step = "idle" /\ queue # <<>>
    /\ queue' = Tail(queue)
    /\ LET c == Head(queue)
       IN /\ place' = [place EXCEPT ![c] = "loop"]
          /\ IF ForAll(c)
             THEN SendSet(c, {}, FALSE)
             ELSE /\ Send(c, Get(c))
                  /\ run' = [step |-> "get", call |-> c, base |-> {},
                             sure |-> wire = <<>>]
    /\ UNCHANGED <<link, cache, want, queued, mask, executed, met, answer>>
    /\ UNCHANGED bounds

(* _recv_get_response and _recv_set_response skip frames of other kinds.   *)
Arrived(op) == {i \in DOMAIN inbox : inbox[i].op = op}
First(op) == inbox[CHOOSE i \in Arrived(op) : \A j \in Arrived(op) : i <= j]

(* The mask was read: nothing to do, or write it.                          *)
GotGet ==
    /\ run.step = "get" /\ Arrived("get") # {}
    /\ LET c == run.call
           base == First("get").mask
       IN IF Modify(c, base) = base
          THEN /\ Finish(c, "ok")
               /\ inbox' = <<>>
               /\ UNCHANGED <<wire, doubtful>>
          ELSE /\ SendSet(c, base, run.sure)
               /\ UNCHANGED <<place, answer>>
    /\ UNCHANGED <<link, cache, want, queue, queued, mask, executed, met>>
    /\ UNCHANGED bounds

(* It was not: the cached mask is written without a comparison; with none, *)
(* nothing is written at all.                                              *)
NoGet ==
    /\ run.step = "get" /\ Arrived("get") = {}
    /\ LET c == run.call
       IN IF cache = Unknown
          THEN Finish(c, "failed") /\ UNCHANGED <<wire, inbox, doubtful>>
          ELSE SendSet(c, cache, FALSE) /\ UNCHANGED <<place, answer>>
    /\ UNCHANGED <<link, cache, want, queue, queued, mask, executed, met>>
    /\ UNCHANGED bounds

(* The cache takes the value the charger names, or else the one intended.  *)
Effective(named, intended) == IF named = Unknown THEN intended ELSE named

GotSet ==
    /\ run.step = "set" /\ Arrived("set") # {}
    /\ cache' = Effective(First("set").mask, Modify(run.call, run.base))
    /\ Finish(run.call, "ok")
    /\ inbox' = <<>>
    /\ UNCHANGED <<link, want, queue, queued, charger, doubtful, bounds>>

NoSet ==
    /\ run.step = "set" /\ Arrived("set") = {}
    /\ Finish(run.call, "failed")
    /\ UNCHANGED <<link, cache, want, queue, queued, charger, inbox, doubtful>>
    /\ UNCHANGED bounds

(* _refresh_settings, in an idle moment.                                   *)
Refresh ==
    /\ link /\ run.step = "idle" /\ wire = <<>> /\ cache # mask
    /\ cache' = mask
    /\ UNCHANGED <<link, callers, run, charger, inbox, doubtful, answer, bounds>>

-----------------------------------------------------------------------------
(* The charger and the link. *)

(* The charger serves requests in their order or ignores them; its answer  *)
(* may be lost, and that to a SET may name the value or not.               *)
ServeGet ==
    /\ wire # <<>> /\ Head(wire).op = "get"
    /\ wire' = Tail(wire)
    /\ \E reply \in {<<>>, <<[op |-> "get", mask |-> mask]>>} :
          inbox' = inbox \o reply
    /\ LET c == Head(wire).call
       IN met' = IF Modify(c, mask) = mask THEN met \union {c} ELSE met
    /\ UNCHANGED <<link, cache, callers, run, mask, executed, doubtful, answer>>
    /\ UNCHANGED bounds

ServeSet ==
    /\ wire # <<>> /\ Head(wire).op = "set"
    /\ wire' = Tail(wire)
    /\ \E reply \in {<<>>} \union {<<[op |-> "set", mask |-> m]>> :
                                      m \in {Unknown, Head(wire).set}} :
          inbox' = inbox \o reply
    /\ mask' = Head(wire).set
    /\ executed' = Append(executed, Head(wire).call)
    /\ met' = met \union {Head(wire).call}
    /\ UNCHANGED <<link, cache, callers, run, doubtful, answer, bounds>>

Ignore ==
    /\ wire # <<>>
    /\ wire' = Tail(wire)
    /\ UNCHANGED <<link, cache, callers, run, mask, executed, met, inbox>>
    /\ UNCHANGED <<doubtful, answer, bounds>>

(* A port switched by a button, a countdown or another controller.         *)
SwitchOutside(p) ==
    /\ outside < MaxOutside
    /\ outside' = outside + 1
    /\ mask' = IF p \in mask THEN mask \ {p} ELSE mask \union {p}
    /\ wire' = [i \in DOMAIN wire |-> [wire[i] EXCEPT !.sure = FALSE]]
    /\ run' = [run EXCEPT !.sure = FALSE]
    /\ UNCHANGED <<link, cache, callers, executed, met, inbox, doubtful, answer>>
    /\ UNCHANGED breaks

(* The command under way fails, the others stay in the queue.              *)
LoseLink ==
    /\ link /\ breaks < MaxBreaks
    /\ breaks' = breaks + 1
    /\ link' = FALSE
    /\ wire' = <<>>
    /\ inbox' = <<>>
    /\ IF run.step = "idle"
       THEN UNCHANGED <<run, place, answer>>
       ELSE Finish(run.call, "failed")
    /\ UNCHANGED <<cache, want, queue, queued, mask, executed, met, doubtful>>
    /\ UNCHANGED outside

Connect ==
    /\ ~link
    /\ link' = TRUE
    /\ cache' = mask
    /\ UNCHANGED <<callers, run, charger, inbox, doubtful, answer, bounds>>

-----------------------------------------------------------------------------
Loop == TakeCommand \/ GotGet \/ NoGet \/ GotSet \/ NoSet

Next ==
    \/ \E c \in Calls : Ask(c) \/ Put(c) \/ GiveUp(c)
    \/ Loop \/ Refresh
    \/ ServeGet \/ ServeSet \/ Ignore
    \/ \E p \in Ports : SwitchOutside(p)
    \/ LoseLink \/ Connect

Spec == Init /\ [][Next]_vars

(* The callers' clocks and, while there is a link, the command loop.       *)
Fairness ==
    /\ \A c \in Calls : WF_vars(Put(c)) /\ WF_vars(GiveUp(c))
    /\ WF_vars(Loop)

FairSpec == Spec /\ Fairness

-----------------------------------------------------------------------------
(* Every variable has the shape the code gives it, the queue keeps to its  *)
(* size, and one exchange is under way at a time.                          *)
Masks == SUBSET Ports
TypeOK ==
    /\ link \in BOOLEAN
    /\ mask \in Masks
    /\ cache \in Masks \union {Unknown}
    /\ place \in [Calls -> {"new", "putting", "queue", "loop", "gone"}]
    /\ queue \in Seq(Calls) /\ Len(queue) <= QueueSize
    /\ run.step \in {"idle", "get", "set"}
    /\ {c \in Calls : place[c] = "loop"} =
          IF run.step = "idle" THEN {} ELSE {run.call}
    /\ answer \in [Calls -> {"none", "ok", "failed"}]

(* A port command changes its own port only: the mask that is written was  *)
(* read after the last change of the charger's, whatever was queued, timed *)
(* out or broke off before.  The exceptions are a switch from outside      *)
(* since, the cached mask after an unanswered GET, and an exchange begun   *)
(* while an earlier one was unanswered.                                    *)
WritesFreshMask ==
    \A i \in DOMAIN wire : wire[i].sure => wire[i].base = mask

(* Commands are carried out at most once and in order, and "ok" is never   *)
(* told of a command that was not, as CommandService has it.               *)
Service == INSTANCE CommandService
ServiceSpec == Service!Spec

(* A caller that waits for room in the queue gets in as long as the link   *)
(* is up.                                                                  *)
RoomComes == \A c \in Calls : place[c] = "putting" ~> (place[c] # "putting" \/ ~link)

(* Every command that got into the queue is answered, link or no link, and *)
(* while the link is up every command gets there.                          *)
CallsAnswered == Service!Answered /\ RoomComes
=============================================================================
