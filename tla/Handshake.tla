------------------------------ MODULE Handshake ------------------------------
(***************************************************************************)
(* Connecting and logging in to a charger: connect, _try_authenticate and  *)
(* _recv_auth_response (controller.py).                                    *)
(*                                                                         *)
(* The host writes and waits in turn; what arrives on the data channel is  *)
(* queued, whatever wait it was meant for, and each wait takes the oldest  *)
(* frame.  A charger whose last session was not ended replays that         *)
(* session's frames.  Keys are the two random numbers they are derived     *)
(* from, and an HMAC is the keys it was made with.                         *)
(***************************************************************************)
EXTENDS Naturals, Sequences

CONSTANT MaxAttempts  \* bound on attempts to log in

HandshakeConstants == MaxAttempts \in Nat \ {0}

VARIABLES
    step,    \* what the host waits for, see Steps
    tries,   \* frames skipped in this wait
    inbox,   \* _notify_queues["auth_data"]
    result,  \* _notify_queues["auth_ctrl"]
    session, \* the host's random key: the number of the attempt
    keys,    \* _session_keys, or NoKeys
    sent,    \* frames of the charger that are still in the air (external)
    replays, \* does the charger replay its last session (external)
    theirs   \* keys of the charger's session, or NoKeys (external)

host == <<step, tries, session, keys>>
vars == <<host, inbox, result, sent, replays, theirs>>

NoKeys == <<>>
Keys(ours, dev) == <<ours, dev>>
Waiting == {"init", "key", "desync", "ready", "taken", "random", "hmac",
            "confirm", "ack", "second", "last", "result"}
Steps == Waiting \union {"idle", "failed", "in"}

Frame(kind) == [kind |-> kind, val |-> NoKeys]
Value(kind, v) == [kind |-> kind, val |-> v]

Init ==
    /\ step = "idle"
    /\ tries = 0
    /\ inbox = <<>> /\ result = <<>>
    /\ session = 0
    /\ keys = NoKeys
    /\ sent = <<>>
    /\ replays \in BOOLEAN
    /\ theirs = Keys(0, 0)    \* of a session before this program's first

-----------------------------------------------------------------------------
(* The charger answers the host's writes.  Its own random number is the    *)
(* number of the session it is in.                                         *)

Session == IF replays THEN theirs ELSE Keys(session, session)

Answers(write) ==
    CASE write = "hello" -> <<Frame("init")>>
      [] write = "version" -> <<Frame("key")>>
      [] write = "login" -> <<Frame("ready")>>
      [] write = "random" -> <<Frame("taken"), Value("random", <<Session[2]>>),
                               Value("hmac", Session)>>
      [] write = "info" -> <<Frame("ready")>>
      [] write = "hmac" -> <<Frame("taken"), Frame("challenge"),
                             Value("response", Session), Frame("ready")>>
      [] write = "response" -> <<Frame("taken")>>
      [] OTHER -> <<>>

(* A write; before the key, or instead of it, the charger may send its     *)
(* init frame again and again, see "desync".                               *)
MaxRepeats == 4
Inits(n) == [i \in 1..n |-> Frame("init")]
Write(write) ==
    \/ sent' = sent \o Answers(write)
    \/ /\ write = "version"
       /\ \E n \in 1..MaxRepeats, key \in {<<>>, <<Frame("key")>>} :
             sent' = sent \o Inits(n) \o key

Deliver ==
    /\ sent # <<>>
    /\ sent' = Tail(sent)
    /\ inbox' = Append(inbox, Head(sent))
    /\ UNCHANGED <<host, result, replays, theirs>>

Lose ==
    /\ sent # <<>>
    /\ sent' = Tail(sent)
    /\ UNCHANGED <<host, inbox, result, replays, theirs>>

-----------------------------------------------------------------------------
(* A wait takes a frame, or nothing when its time is up.                   *)

Nothing == Frame("nothing")
Take(f) ==
    \/ /\ inbox # <<>>
       /\ f = Head(inbox)
       /\ inbox' = Tail(inbox)
    \/ /\ inbox = <<>>
       /\ f = Nothing
       /\ UNCHANGED inbox

FramesOnly == IF inbox = <<>> THEN {} ELSE {Head(inbox)}  \* mutant
Frames == {Nothing} \union (IF inbox = <<>> THEN {} ELSE {Head(inbox)})

GoTo(next) ==
    /\ step' = next
    /\ tries' = 0
    /\ UNCHANGED <<session, keys, replays>>

Fail == GoTo("failed") /\ UNCHANGED <<sent, result, theirs>>
Proceed(next) == GoTo(next) /\ UNCHANGED <<result, theirs>>

(* A new link, with empty queues and a new random number; what was in the  *)
(* air is lost with the old link.                                          *)
Connect ==
    /\ step \in {"idle", "failed"}
    /\ session < MaxAttempts
    /\ session' = session + 1
    /\ keys' = NoKeys
    /\ step' = "init" /\ tries' = 0
    /\ inbox' = <<>> /\ result' = <<>>
    /\ sent' = Answers("hello")
    /\ UNCHANGED <<replays, theirs>>

AwaitInit ==
    /\ step = "init"
    /\ \E f \in Frames :
          /\ Take(f)
          /\ IF f = Nothing
             THEN Fail
             ELSE Proceed("key") /\ Write("version")

(* Anything that does not look like another init frame is the key.  Its    *)
(* answer is a placeholder, and then all that has arrived is discarded.    *)
StartLogin == inbox' = <<>> /\ Proceed("ready") /\ Write("login")

AwaitKey ==
    /\ step = "key"
    /\ \/ inbox = <<>> /\ Fail /\ UNCHANGED inbox
       \/ /\ inbox # <<>>
          /\ IF Head(inbox).kind = "init"
             THEN inbox' = Tail(inbox) /\ Proceed("desync") /\ UNCHANGED sent
             ELSE StartLogin

(* Three more frames, or until the time is up: only after a third failure  *)
(* is the attempt given up, while a time-out before that ends the loop as  *)
(* if the key had come.                                                    *)
LastTry == tries = 2
AwaitLateKey ==
    /\ step = "desync"
    /\ \/ inbox # <<>> /\ Head(inbox).kind = "key" /\ StartLogin
       \/ inbox = <<>> /\ ~LastTry /\ StartLogin
       \/ /\ LastTry
          /\ inbox # <<>> => Head(inbox).kind # "key"
          /\ Fail /\ UNCHANGED inbox
       \/ /\ inbox # <<>> /\ Head(inbox).kind # "key" /\ ~LastTry
          /\ inbox' = Tail(inbox)
          /\ tries' = tries + 1
          /\ UNCHANGED <<step, session, keys, result, sent, replays, theirs>>

(* RCV_RDY within five waits.                                              *)
MaxSkips == 4
AwaitReady ==
    /\ step = "ready"
    /\ \E f \in Frames :
          /\ Take(f)
          /\ \/ f.kind = "ready" /\ Proceed("taken") /\ Write("random")
             \/ f.kind # "ready" /\ tries = MaxSkips /\ Fail
             \/ /\ f.kind # "ready" /\ tries < MaxSkips
                /\ tries' = tries + 1
                /\ UNCHANGED <<step, session, keys, result, sent, replays, theirs>>

AwaitTaken ==
    /\ step = "taken"
    /\ \E f \in Frames :
          /\ Take(f)
          /\ IF f.kind = "taken" THEN Proceed("random") /\ UNCHANGED sent ELSE Fail

(* A payload long enough is the random number, and the next one the HMAC.  *)
(* Frames of the second round may or may not look like one.                *)
Payloads == {"random", "hmac", "challenge", "response"}
AwaitRandom ==
    /\ step = "random"
    /\ \E f \in Frames :
          /\ Take(f)
          /\ \/ /\ f.kind \in Payloads
                /\ step' = "hmac" /\ tries' = 0
                /\ keys' = Keys(session, IF f.kind = "random" THEN f.val[1] ELSE 0)
                /\ UNCHANGED <<session, result, sent, replays, theirs>>
             \/ f.kind \notin {"random", "hmac"} /\ Fail

(* The HMAC proves that the charger derived the same keys.                 *)
LongEnough(f) == f.kind \in {"hmac", "response"}  \* mutant
CheckHmac(f) == f.kind = "hmac" /\ f.val = keys

AwaitHmac ==
    /\ step = "hmac"
    /\ \E f \in Frames :
          /\ Take(f)
          /\ IF CheckHmac(f) THEN Proceed("confirm") /\ Write("info") ELSE Fail

(* The host's own HMAC: the charger answers on both channels, and a        *)
(* replaying one does so as it did the last time.                          *)
AwaitConfirm ==
    /\ step = "confirm"
    /\ \E f \in Frames :
          /\ Take(f)
          /\ IF f.kind = "ready"
             THEN /\ GoTo("ack")
                  /\ Write("hmac")
                  /\ result' \in {<<>>, <<IF replays \/ Session = keys THEN "ok"
                                          ELSE "refused">>}
                  /\ theirs' = Session
             ELSE Fail

AwaitAck ==
    /\ step = "ack"
    /\ \E f \in Frames : Take(f) /\ Proceed("second") /\ UNCHANGED sent

(* The second round does not matter: it ends with a ready or taken frame   *)
(* or its time, and the charger's response is sent back if it came and was *)
(* recognised (the code and its comments differ on the byte that tells).   *)
AwaitSecond ==
    /\ step = "second"
    /\ \E f \in Frames :
          /\ Take(f)
          /\ \/ /\ f.kind \in {"nothing", "ready", "taken"}
                /\ IF tries > 0 THEN Proceed("last") /\ Write("response")
                   ELSE Proceed("result") /\ UNCHANGED sent
             \/ /\ f.kind \notin {"nothing", "ready", "taken"}
                /\ tries' \in IF f.kind = "response" THEN {tries, 1} ELSE {tries}
                /\ UNCHANGED <<step, session, keys, result, sent, replays, theirs>>

AwaitLast ==
    /\ step = "last"
    /\ \E f \in Frames : Take(f) /\ Proceed("result") /\ UNCHANGED sent

AwaitResult ==
    /\ step = "result"
    /\ GoTo(IF result = <<"ok">> THEN "in" ELSE "failed")
    /\ result' = <<>>
    /\ UNCHANGED <<inbox, sent, theirs>>

(* The link is lost or given up: the charger may or may not notice.        *)
LoseLink ==
    /\ step = "in"
    /\ session < MaxAttempts
    /\ step' = "failed"
    /\ replays' \in BOOLEAN
    /\ UNCHANGED <<tries, session, keys, inbox, result, sent, theirs>>

-----------------------------------------------------------------------------
HostStep ==
    \/ AwaitInit \/ AwaitKey \/ AwaitLateKey \/ AwaitReady \/ AwaitTaken
    \/ AwaitRandom \/ AwaitHmac \/ AwaitConfirm \/ AwaitAck \/ AwaitSecond
    \/ AwaitLast \/ AwaitResult

Next == Connect \/ HostStep \/ Deliver \/ Lose \/ LoseLink

Spec == Init /\ [][Next]_vars

(* Every wait has a time-out.                                              *)
FairSpec == Spec /\ WF_vars(HostStep)

-----------------------------------------------------------------------------
(* The host is at a step of the protocol, within the tries of that step.   *)
TypeOK ==
    /\ step \in Steps
    /\ tries \in 0..4
    /\ session \in 0..MaxAttempts
    /\ \A i \in DOMAIN inbox :
          inbox[i].kind \in Payloads \union {"init", "key", "ready", "taken"}
    /\ Len(result) <= 1
    /\ replays \in BOOLEAN

(* Logged in means that both sides hold keys of this very session, never   *)
(* those of an earlier one that the charger replays, whatever was lost,    *)
(* late or taken for something else on the way.                            *)
KeysAgree == step = "in" => keys = theirs /\ keys = Keys(session, session)

(* An attempt comes to an end.                                             *)
AttemptEnds == step \in Waiting ~> step \in {"in", "failed"}
=============================================================================
