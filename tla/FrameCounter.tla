----------------------------- MODULE FrameCounter -----------------------------
(***************************************************************************)
(* The charger's frame counter as the host reconstructs it: decrypt        *)
(* (controller.py) and what the manager does about failures                *)
(* (_decrypt_payload, ble_manager.py).                                     *)
(*                                                                         *)
(* A frame carries the low bits of the counter its nonce was made of.  The *)
(* host keeps the high bits and adds one when the low bits drop by more    *)
(* than half their range.  It does so before it knows whether the frame    *)
(* can be decrypted, which is the case when the guess is right.  Frames    *)
(* that are only acknowledged, and those that are lost, are not seen.      *)
(***************************************************************************)
EXTENDS Integers

CONSTANTS
    Range,     \* values of the low bits, 2^16 in the code
    MaxGap,    \* most frames in a row that the host does not see
    MaxNoise,  \* bound on frames that are not the charger's
    MaxFails   \* DECRYPT_FAIL_LIMIT

CounterConstants ==
    /\ {Range, MaxFails} \subseteq Nat \ {0}
    /\ {MaxGap, MaxNoise} \subseteq Nat
    /\ MaxGap + 1 < Range \div 2

VARIABLES
    next,     \* low bits of the charger's next frame (external)
    unseen,   \* frames since the last that the host saw (external)
    low,      \* _last_dev_it_lo
    ahead,    \* _dev_it_hi less the high bits of the charger's next frame
    failed,   \* _decrypt_failures
    readable, \* was the charger's last frame decrypted (auxiliary)
    noise,    \* noise so far (auxiliary)
    noisy     \* has there been noise in this session (auxiliary)

vars == <<next, unseen, low, ahead, failed, readable, noise, noisy>>

Init ==
    /\ next = 0 /\ unseen = 0
    /\ low = 0 /\ ahead = 0
    /\ failed = 0
    /\ readable = TRUE
    /\ noise = 0 /\ noisy = FALSE

One(b) == IF b THEN 1 ELSE 0

WrapsNever(l) == FALSE  \* mutant
Wraps(l) == l < low /\ low - l > Range \div 2

(* The charger counts on.                                                  *)
Advance(lead) ==
    /\ next' = (next + 1) % Range
    /\ ahead' = lead - One(next = Range - 1)

ResetHigh == 0

(* Both sides' counters begin at zero.                                     *)
NewSession ==
    /\ next' = 0 /\ unseen' = 0
    /\ low' = 0 /\ ahead' = ResetHigh
    /\ noisy' = FALSE

NeverTooMany == FALSE  \* mutant
TooMany == failed + 1 >= MaxFails

Count == failed' = IF failed < MaxFails THEN failed + 1 ELSE failed

(* The charger sends a frame that the host receives.  Failures in a row    *)
(* end the session.                                                        *)
Receive ==
    LET lead == ahead + One(Wraps(next))
    IN /\ readable' = (lead = 0)
       /\ IF lead = 0 THEN failed' = 0 ELSE Count
       /\ IF lead # 0 /\ TooMany
          THEN NewSession
          ELSE low' = next /\ unseen' = 0 /\ Advance(lead) /\ UNCHANGED noisy
       /\ UNCHANGED noise

Miss ==
    /\ unseen < MaxGap
    /\ unseen' = unseen + 1
    /\ Advance(ahead)
    /\ UNCHANGED <<low, failed, readable, noise, noisy>>

(* A frame that is not the charger's, with any low bits.                   *)
Noise(l) ==
    /\ noise < MaxNoise
    /\ noise' = noise + 1
    /\ Count
    /\ IF TooMany
       THEN NewSession
       ELSE /\ low' = l
            /\ ahead' = ahead + One(Wraps(l))
            /\ noisy' = TRUE
            /\ UNCHANGED <<next, unseen>>
    /\ UNCHANGED readable

(* The link is lost for another reason.                                    *)
Reconnect == NewSession /\ UNCHANGED <<failed, readable, noise>>

Next == Receive \/ Miss \/ Reconnect \/ \E l \in 0..Range - 1 : Noise(l)

Spec == Init /\ [][Next]_vars
FairSpec == Spec /\ WF_vars(Receive)

-----------------------------------------------------------------------------
(* The counters are within their bounds, and the host's high bits are off  *)
(* by no more than noise can make them.                                    *)
TypeOK ==
    /\ next \in 0..Range - 1 /\ low \in 0..Range - 1
    /\ unseen \in 0..MaxGap
    /\ ahead \in -1 - MaxNoise..MaxNoise
    /\ failed \in 0..MaxFails
    /\ readable \in BOOLEAN /\ noisy \in BOOLEAN

(* As long as no more than MaxGap frames are missed in a row, the host     *)
(* reconstructs the counter exactly, session after session and through any *)
(* number of wraps; noise alone can make it lose count.                    *)
ReadsEveryFrame == [][Receive /\ ~noisy => readable']_vars

(* And then it does not stay so: the failures end the session.             *)
ReadsAgain == ~readable ~> readable
===============================================================================
