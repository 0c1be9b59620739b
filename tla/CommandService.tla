--------------------------- MODULE CommandService ---------------------------
(***************************************************************************)
(* What send_command promises its callers, whatever the radio link does.   *)
(*                                                                         *)
(* The charger carries a command out at most once, never before it was     *)
(* queued, and never after one that was queued later.  A caller gets one   *)
(* answer.  "ok" says that the charger has done what was asked, or was     *)
(* found that way, unless the answer of an earlier exchange was still      *)
(* outstanding (a doubtful command).  "failed" says nothing: the command   *)
(* may have been carried out, or be carried out later.                     *)
(***************************************************************************)
EXTENDS Naturals, Sequences, SequencesExt

CONSTANT Calls

VARIABLES
    queued,   \* calls in the order of their commands in the queue
    executed, \* calls whose command the charger carried out, in that order
    met,      \* calls for which the charger has been as asked
    doubtful, \* calls that may have been given an earlier call's answer
    answer    \* each call's answer: "none", "ok" or "failed"

vars == <<queued, executed, met, doubtful, answer>>

Init ==
    /\ queued = <<>>
    /\ executed = <<>>
    /\ met = {}
    /\ doubtful = {}
    /\ answer = [c \in Calls |-> "none"]

Queue(c) ==
    /\ ~Contains(queued, c)
    /\ queued' = Append(queued, c)
    /\ UNCHANGED <<executed, met, doubtful, answer>>

(* In order, because no call behind this one has been carried out.         *)
Execute(i) ==
    /\ \A j \in i..Len(queued) : ~Contains(executed, queued[j])
    /\ executed' = Append(executed, queued[i])
    /\ met' = met \union {queued[i]}
    /\ UNCHANGED <<queued, doubtful, answer>>

FindMet(i) ==
    /\ met' = met \union {queued[i]}
    /\ UNCHANGED <<queued, executed, doubtful, answer>>

Doubt(i) ==
    /\ doubtful' = doubtful \union {queued[i]}
    /\ UNCHANGED <<queued, executed, met, answer>>

AnswerCall(c, a) ==
    /\ answer[c] = "none"
    /\ a = "ok" => c \in met \union doubtful
    /\ answer' = [answer EXCEPT ![c] = a]
    /\ UNCHANGED <<queued, executed, met, doubtful>>

Next ==
    \/ \E c \in Calls : Queue(c) \/ \E a \in {"ok", "failed"} : AnswerCall(c, a)
    \/ \E i \in DOMAIN queued : Execute(i) \/ FindMet(i) \/ Doubt(i)

Spec == Init /\ [][Next]_vars

(* Every call whose command got into the queue is answered, with no other  *)
(* help than the caller's own clock.                                       *)
Answered == \A c \in Calls : Contains(queued, c) ~> answer[c] # "none"
=============================================================================
