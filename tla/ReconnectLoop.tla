---------------------------- MODULE ReconnectLoop ----------------------------
(***************************************************************************)
(* One device's reconnect loop: BLEManager.start and _connect_and_run      *)
(* (ble_manager.py), with its four brakes -- exponential backoff, circuit  *)
(* breaker, slow retry and the hourly budget of session rebuilds, a file   *)
(* that all devices share -- and the checks that must bring down a link    *)
(* that is up but of no use.                                               *)
(*                                                                         *)
(* Time is not counted: a delay that runs may be over.                     *)
(***************************************************************************)
EXTENDS Naturals

CONSTANTS
    MaxAuth,       \* MAX_AUTH_FAILURES
    MaxBreaker,    \* CIRCUIT_BREAKER_MAX_FAIL
    Budget,        \* AUTH_L3_MAX_PER_HOUR
    MaxDecrypt,    \* DECRYPT_FAIL_LIMIT
    MaxVerify,     \* _VERIFY_FAIL_STREAK_LIMIT
    MaxKeepalive,  \* failed keepalives, 3 in the code
    MaxSettings,   \* failed refreshes, 2 in the code
    MaxExponent    \* the backoff stops growing here, 10 in the code

ASSUME LoopAssumption ==
    {MaxAuth, MaxBreaker, Budget, MaxDecrypt, MaxVerify, MaxKeepalive,
     MaxSettings, MaxExponent} \subseteq Nat \ {0}

VARIABLES
    phase,        \* where the loop is, see Phases
    stopEvent,    \* _stop_event
    err,          \* kind of last_error, "none" after a normal return
    attempts,     \* _reconnect_attempts, as far as it counts
    authFails,    \* _auth_fail_count
    breaker,      \* _circuit_breaker_failures, up to the threshold
    cooldown,     \* _circuit_breaker_cooldown: "none", "running" or "over"
    ledger,       \* rebuilds in the file within the last hour, of all devices
    health,       \* what the link is like (external), see Healths
    timerDead,    \* _port_timer_dead
    fails,        \* failures on this link: verify, keep and settings
    decryptFails, \* _decrypt_failures
    refused       \* authentications refused since one succeeded (auxiliary)

link == <<health, timerDead, fails>>
counters == <<attempts, authFails, breaker, cooldown>>
vars == <<phase, stopEvent, err, counters, ledger, link, decryptFails, refused>>

Phases == {"top", "cooling", "connecting", "up", "failed", "recovered",
           "stuck", "waiting", "ended"}

(* A link may answer; take writes and answer nothing; raise on every       *)
(* access; or have been dropped without anyone being told.                 *)
Healths == {"good", "mute", "deaf", "gone"}
Errors == {"none", "auth", "powered", "notfound", "other"}
NoFails == [verify |-> 0, keep |-> 0, settings |-> 0]

AtMost(n, max) == IF n <= max THEN n ELSE max

Init ==
    /\ phase = "top"
    /\ stopEvent = FALSE
    /\ err = "none"
    /\ attempts = 0 /\ authFails = 0 /\ breaker = 0 /\ cooldown = "none"
    /\ ledger = 0
    /\ health = "good" /\ timerDead = FALSE /\ fails = NoFails
    /\ decryptFails = 0
    /\ refused = 0

-----------------------------------------------------------------------------
(* The breaker. *)

GoesOn(next) == next  \* mutant
UnlessStopped(next) == IF stopEvent THEN "ended" ELSE next

(* Once open it stays open until its cooldown is over; with that the       *)
(* failures are forgotten.                                                 *)
EnterTop ==
    /\ phase = "top"
    /\ phase' = UnlessStopped(IF cooldown = "running" THEN "cooling"
                              ELSE "connecting")
    /\ IF phase' = "connecting"
       THEN /\ cooldown' = "none"
            /\ breaker' = IF cooldown = "over" THEN 0 ELSE breaker
       ELSE UNCHANGED <<breaker, cooldown>>
    /\ UNCHANGED <<stopEvent, err, attempts, authFails, ledger, link>>
    /\ UNCHANGED <<decryptFails, refused>>

Elapse ==
    /\ cooldown = "running"
    /\ cooldown' = "over"
    /\ UNCHANGED <<phase, stopEvent, err, attempts, authFails, breaker>>
    /\ UNCHANGED <<ledger, link, decryptFails, refused>>

(* The wait is over, or stop() cuts it short.                              *)
EndCooling ==
    /\ phase = "cooling"
    /\ phase' = UnlessStopped("top")
    /\ UNCHANGED <<stopEvent, err, counters, ledger, link, decryptFails, refused>>

(* An exception leaves the link: it counts for the breaker, whatever came  *)
(* before it.                                                              *)
Fail(e) ==
    /\ phase' = "failed"
    /\ err' = e
    /\ breaker' = AtMost(breaker + 1, MaxBreaker)
    /\ cooldown' = IF breaker + 1 >= MaxBreaker THEN "running" ELSE cooldown
    /\ UNCHANGED <<stopEvent, attempts, ledger>>

-----------------------------------------------------------------------------
(* Connecting. *)

RememberAuth == authFails  \* mutant
ForgetAuth == 0

Authenticated ==
    /\ phase = "connecting"
    /\ phase' = "up"
    /\ authFails' = ForgetAuth
    /\ health' = "good" /\ timerDead' = FALSE /\ fails' = NoFails
    /\ refused' = 0
    /\ UNCHANGED <<stopEvent, err, attempts, breaker, cooldown, ledger>>
    /\ UNCHANGED decryptFails

ConnectFails(e) ==
    /\ phase = "connecting"
    /\ Fail(e)
    /\ refused' = IF e = "auth" THEN AtMost(refused + 1, MaxAuth) ELSE refused
    /\ UNCHANGED <<authFails, link, decryptFails>>

-----------------------------------------------------------------------------
(* A link that is up. *)

(* The loop sees the event, or finds ctrl gone: a normal return, the only  *)
(* one, which forgets everything.                                          *)
NormalReturn ==
    /\ phase = "up" /\ stopEvent
    /\ phase' = "ended"
    /\ err' = "none"
    /\ attempts' = 0 /\ authFails' = 0 /\ breaker' = 0
    /\ decryptFails' = 0
    /\ UNCHANGED <<stopEvent, cooldown, ledger, link, refused>>

Worsen(h) ==
    /\ phase = "up" /\ health = "good"
    /\ health' = h
    /\ UNCHANGED <<phase, stopEvent, err, counters, ledger, timerDead, fails>>
    /\ UNCHANGED <<decryptFails, refused>>

TimerDies ==
    /\ phase = "up" /\ ~stopEvent
    /\ timerDead' = TRUE
    /\ UNCHANGED <<phase, stopEvent, err, counters, ledger, health, fails>>
    /\ UNCHANGED <<decryptFails, refused>>

SeeDeadTimer ==
    /\ phase = "up" /\ ~stopEvent /\ timerDead
    /\ Fail("other")
    /\ UNCHANGED <<authFails, link, decryptFails, refused>>

(* A check that counts its failures and gives the link up at the limit.    *)
Count(check, failed, limit) ==
    /\ fails' = [fails EXCEPT ![check] = IF failed THEN @ + 1 ELSE 0]
    /\ IF fails'[check] >= limit
       THEN Fail("other")
       ELSE UNCHANGED <<phase, err, breaker, cooldown>>
    /\ UNCHANGED <<stopEvent, attempts, authFails, ledger, health, timerDead>>
    /\ UNCHANGED <<decryptFails, refused>>

(* C3 and USB-A are polled by the timer.  An answer that does not come is  *)
(* counted; a GET that raises is not.                                      *)
VerifyUncounted == FALSE  \* mutant
VerifyCounts == health = "mute"

VerifyPort ==
    /\ phase = "up" /\ ~stopEvent /\ ~timerDead /\ health \in {"good", "mute"}
    /\ Count("verify", VerifyCounts, MaxVerify)

Keepalive ==
    /\ phase = "up" /\ ~stopEvent /\ health # "gone"
    /\ Count("keep", health = "deaf", MaxKeepalive)

(* A refresh fails when every GET of it raises; no answer is no failure.   *)
RefreshFails == health \in {"deaf", "gone"}
RefreshSettings ==
    /\ phase = "up" /\ ~stopEvent
    /\ Count("settings", RefreshFails, MaxSettings)

(* A minute without a frame or a refresh: a read settles it.               *)
Probe ==
    /\ phase = "up" /\ ~stopEvent /\ health \in {"deaf", "gone"}
    /\ Fail("other")
    /\ UNCHANGED <<authFails, link, decryptFails, refused>>

GoodFrame ==
    /\ phase = "up" /\ ~stopEvent /\ health = "good"
    /\ decryptFails' = 0
    /\ UNCHANGED <<phase, stopEvent, err, counters, ledger, link, refused>>

BadFrame ==
    /\ phase = "up" /\ ~stopEvent /\ health = "good"
    /\ decryptFails' = AtMost(decryptFails + 1, MaxDecrypt)
    /\ IF decryptFails + 1 >= MaxDecrypt
       THEN Fail("other")
       ELSE UNCHANGED <<phase, stopEvent, err, attempts, breaker, cooldown>>
            /\ UNCHANGED <<ledger>>
    /\ UNCHANGED <<authFails, link, refused>>

-----------------------------------------------------------------------------
(* After a failure. *)

(* _disconnect, then the adapter's help unless the charger is out of       *)
(* range or Bluetooth is off.                                              *)
Recover ==
    /\ phase = "failed"
    /\ phase' = UnlessStopped("recovered")
    /\ IF stopEvent
       THEN UNCHANGED <<attempts, authFails>>
       ELSE /\ attempts' = IF err = "auth" THEN 0 ELSE attempts
            /\ authFails' = IF err = "auth" THEN AtMost(authFails + 1, MaxAuth)
                            ELSE authFails
    /\ UNCHANGED <<stopEvent, err, breaker, cooldown, ledger, link>>
    /\ UNCHANGED <<decryptFails, refused>>

AllowedOnceMore == ledger <= Budget  \* mutant
Allowed == ledger < Budget

MustRebuild == err = "auth" /\ authFails >= MaxAuth /\ Allowed
TriesWithBudget == ~MustRebuild /\ authFails < MaxAuth  \* mutant
TriesAgain == ~MustRebuild

(* The rebuild is entered in the file before anyone is told.               *)
AskForRebuild ==
    /\ phase = "recovered" /\ MustRebuild
    /\ phase' = "stuck"
    /\ ledger' = ledger + 1
    /\ UNCHANGED <<stopEvent, err, counters, link, decryptFails, refused>>

(* Within the budget or not, the loop tries again: after the backoff, a    *)
(* minute, or the slow delay.                                              *)
Wait ==
    /\ phase = "recovered" /\ TriesAgain
    /\ phase' = "waiting"
    /\ attempts' = AtMost(attempts + 1, MaxExponent)
    /\ UNCHANGED <<stopEvent, err, authFails, breaker, cooldown, ledger, link>>
    /\ UNCHANGED <<decryptFails, refused>>

EndWait ==
    /\ phase = "waiting"
    /\ phase' = UnlessStopped("top")
    /\ UNCHANGED <<stopEvent, err, counters, ledger, link, decryptFails, refused>>

(* In this process or by a new one: the next manager starts from nothing.  *)
Rebuilt ==
    /\ phase = "stuck"
    /\ phase' = "top"
    /\ stopEvent' = FALSE
    /\ err' = "none"
    /\ attempts' = 0 /\ authFails' = 0 /\ breaker' = 0 /\ cooldown' = "none"
    /\ decryptFails' = 0
    /\ refused' = 0
    /\ UNCHANGED <<ledger, link>>

-----------------------------------------------------------------------------
(* From outside. *)

(* What a stop does to a rebuild that is under way is RuntimeSupervisor's.  *)
Stop ==
    /\ ~stopEvent /\ phase \notin {"ended", "stuck"}
    /\ stopEvent' = TRUE
    /\ UNCHANGED <<phase, err, counters, ledger, link, decryptFails, refused>>

(* start() once more; the breaker is as it was left.                       *)
StartAgain ==
    /\ phase = "ended"
    /\ phase' = "top"
    /\ stopEvent' = FALSE
    /\ err' = "none"
    /\ attempts' = 0 /\ authFails' = 0 /\ decryptFails' = 0
    /\ refused' = 0
    /\ UNCHANGED <<breaker, cooldown, ledger, link>>

(* Another device's loop spends the budget; entries older than an hour are *)
(* not counted.                                                            *)
SpendByOther ==
    /\ Allowed
    /\ ledger' = ledger + 1
    /\ UNCHANGED <<phase, stopEvent, err, counters, link, decryptFails, refused>>

EntryExpires ==
    /\ ledger > 0
    /\ ledger' = ledger - 1
    /\ UNCHANGED <<phase, stopEvent, err, counters, link, decryptFails, refused>>

-----------------------------------------------------------------------------
LoopStep ==
    EnterTop \/ EndCooling \/ Recover \/ AskForRebuild \/ Wait \/ EndWait
    \/ Rebuilt \/ NormalReturn

ConnectStep ==
    Authenticated \/ \E e \in Errors \ {"none"} : ConnectFails(e)

Next ==
    \/ LoopStep \/ ConnectStep \/ Elapse
    \/ \E h \in Healths \ {"good"} : Worsen(h)
    \/ TimerDies \/ SeeDeadTimer
    \/ VerifyPort \/ Keepalive \/ RefreshSettings \/ Probe
    \/ GoodFrame \/ BadFrame
    \/ Stop \/ StartAgain \/ SpendByOther \/ EntryExpires

Spec == Init /\ [][Next]_vars

(* Every await of the loop has a time-out or is ended by the stop event,   *)
(* and while a link is up the timer, the refresh and the keepalive come    *)
(* round again and again.  A probe needs a minute in which no refresh ran, *)
(* which the default interval does not leave.                              *)
Fairness ==
    /\ WF_vars(LoopStep) /\ WF_vars(ConnectStep) /\ WF_vars(Elapse)
    /\ WF_vars(SeeDeadTimer) /\ WF_vars(VerifyPort) /\ WF_vars(RefreshSettings)

FairSpec == Spec /\ Fairness

-----------------------------------------------------------------------------
(* Every counter keeps within its limit.                                   *)
TypeOK ==
    /\ phase \in Phases
    /\ stopEvent \in BOOLEAN
    /\ err \in Errors
    /\ attempts \in 0..MaxExponent
    /\ authFails \in 0..MaxAuth
    /\ breaker \in 0..MaxBreaker
    /\ cooldown \in {"none", "running", "over"}
    /\ ledger \in 0..Budget
    /\ health \in Healths
    /\ timerDead \in BOOLEAN
    /\ fails \in [verify : 0..MaxVerify, keep : 0..MaxKeepalive,
                  settings : 0..MaxSettings]
    /\ decryptFails \in 0..MaxDecrypt

(* A session is rebuilt, with other devices' links in the worst case, only *)
(* when MaxAuth authentications have been refused since one succeeded, and *)
(* the budget is never overdrawn by the devices together.                  *)
RebuildIsEarned == phase = "stuck" => refused >= MaxAuth /\ ledger <= Budget

(* A link without its timer, or over which nothing comes back any more, is *)
(* given up.                                                               *)
DeadLinkEnds ==
    phase = "up" /\ (timerDead \/ health # "good") ~> phase # "up"

(* Brakes delay, but neither an open breaker nor a spent budget is for     *)
(* ever: a loop that has not been stopped connects again and again.        *)
KeepsTrying == []<>(phase \in {"connecting", "up"} \/ stopEvent \/ phase = "ended")

(* stop() ends the loop wherever it waits.                                 *)
StopEnds == stopEvent ~> phase = "ended" \/ ~stopEvent
==============================================================================
