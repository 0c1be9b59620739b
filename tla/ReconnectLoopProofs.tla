------------------------- MODULE ReconnectLoopProofs -------------------------
(***************************************************************************)
(* Proofs about ReconnectLoop for all limits, budgets and thresholds: its  *)
(* counters keep within their limits, a rebuild of the session is earned   *)
(* and within the budget, and nothing is tried while the breaker is open.  *)
(***************************************************************************)
EXTENDS ReconnectLoop, TLAPS

(* What is inductive beside the types.  The three check counters are below
   their limits while the link is up: the check that reaches its limit ends
   the link in the same step. *)
BelowLimits ==
    phase = "up" => /\ fails.verify < MaxVerify
                    /\ fails.keep < MaxKeepalive
                    /\ fails.settings < MaxSettings

(* _auth_fail_count never runs ahead of the refusals.  It is bumped a step
   after the refusal (after _disconnect), so in between it is behind. *)
FailuresAreRefusals ==
    /\ refused \in 0..MaxAuth
    /\ authFails <= refused
    /\ phase = "failed" /\ err = "auth" => refused = MaxAuth \/ authFails < refused
    /\ phase = "stuck" => refused >= MaxAuth

(* A circuit breaker that is full has its cooldown before it, and is closed
   again whenever the loop connects or is connected. *)
BreakerHolds ==
    phase \in {"connecting", "up"} => breaker < MaxBreaker /\ cooldown = "none"
OpenIsCooling == breaker = MaxBreaker => cooldown # "none"

LoopInv ==
    /\ TypeOK /\ BelowLimits /\ FailuresAreRefusals
    /\ BreakerHolds /\ OpenIsCooling

LEMMA Limits ==
  /\ MaxAuth \in Nat /\ MaxAuth > 0
  /\ MaxBreaker \in Nat /\ MaxBreaker > 0
  /\ Budget \in Nat /\ Budget > 0
  /\ MaxDecrypt \in Nat /\ MaxDecrypt > 0
  /\ MaxVerify \in Nat /\ MaxVerify > 0
  /\ MaxKeepalive \in Nat /\ MaxKeepalive > 0
  /\ MaxSettings \in Nat /\ MaxSettings > 0
  /\ MaxExponent \in Nat /\ MaxExponent > 0
  BY LoopAssumption

(* What a fresh counter is good for. *)
LEMMA Fresh ==
  /\ 0 \in 0..MaxExponent
  /\ 0 \in 0..MaxAuth
  /\ 0 \in 0..MaxBreaker /\ 0 < MaxBreaker
  /\ 0 \in 0..Budget
  /\ 0 \in 0..MaxDecrypt
  /\ 0 < MaxVerify /\ 0 < MaxKeepalive /\ 0 < MaxSettings
  /\ NoFails \in [verify : 0..MaxVerify, keep : 0..MaxKeepalive,
                   settings : 0..MaxSettings]
  BY Limits DEF NoFails

-----------------------------------------------------------------------------
(* An exception that leaves an authenticated link or a connection attempt:
   the failure is counted, and the last one opens the breaker. *)
LEMMA FailOpens ==
  ASSUME LoopInv, NEW e \in Errors, Fail(e)
  PROVE  /\ phase' = "failed" /\ err' = e
         /\ UNCHANGED <<stopEvent, attempts, ledger>>
         /\ breaker' \in 0..MaxBreaker
         /\ cooldown' \in {"none", "running", "over"}
         /\ BreakerHolds' /\ OpenIsCooling'
  BY Limits DEF LoopInv, TypeOK, Fail, AtMost, BreakerHolds, OpenIsCooling

(* A failure over a link that is up, which is no refusal. *)
LEMMA LinkFailKeeps ==
  ASSUME LoopInv, Fail("other"),
         fails' \in [verify : 0..MaxVerify, keep : 0..MaxKeepalive,
                     settings : 0..MaxSettings],
         decryptFails' \in 0..MaxDecrypt,
         UNCHANGED <<authFails, health, timerDead, refused>>
  PROVE  LoopInv'
<1>1. "other" \in Errors /\ "failed" \in Phases
  BY DEF Errors, Phases
<1> QED
  BY <1>1, FailOpens
     DEF LoopInv, TypeOK, BelowLimits, FailuresAreRefusals

(* One check of a link that is up, whatever it found. *)
LEMMA CountKeeps ==
  ASSUME LoopInv, phase = "up", NEW failed \in BOOLEAN,
         NEW check \in {"verify", "keep", "settings"}, NEW limit,
         limit = IF check = "verify" THEN MaxVerify
                 ELSE IF check = "keep" THEN MaxKeepalive ELSE MaxSettings,
         Count(check, failed, limit)
  PROVE  LoopInv'
<1>1. /\ fails' \in [verify : 0..MaxVerify, keep : 0..MaxKeepalive,
                     settings : 0..MaxSettings]
      /\ \A c \in {"verify", "keep", "settings"} : c # check => fails'[c] = fails[c]
      /\ fails'[check] <= limit
  BY Limits DEF LoopInv, TypeOK, BelowLimits, Count
<1>2. decryptFails' \in 0..MaxDecrypt /\ UNCHANGED <<authFails, health, timerDead, refused>>
  BY DEF Count, LoopInv, TypeOK
<1>3. CASE fails'[check] >= limit
  BY <1>1, <1>2, <1>3, LinkFailKeeps DEF Count
<1>4. CASE ~(fails'[check] >= limit)
  <2>1. UNCHANGED <<phase, stopEvent, err, counters, ledger, health, timerDead>>
        /\ UNCHANGED <<decryptFails, refused>>
    BY <1>4 DEF Count, counters
  <2>2. TypeOK'
    BY <1>1, <2>1 DEF TypeOK, LoopInv, counters
  <2>3. BelowLimits'
    BY <1>1, <1>4, Limits DEF BelowLimits, LoopInv, TypeOK
  <2> QED
    BY <2>1, <2>2, <2>3
       DEF LoopInv, counters, FailuresAreRefusals, BreakerHolds, OpenIsCooling
<1> QED
  BY <1>3, <1>4

-----------------------------------------------------------------------------
LEMMA LoopInit == Init => LoopInv
  <1> SUFFICES ASSUME Init PROVE LoopInv
    OBVIOUS
  <1>1. TypeOK
    BY Fresh DEF Init, TypeOK, Phases, Errors, Healths
  <1> QED
    BY <1>1, Fresh
       DEF Init, LoopInv, BelowLimits, FailuresAreRefusals, BreakerHolds,
           OpenIsCooling

LEMMA LoopStepKeeps == LoopInv /\ LoopStep => LoopInv'
  <1> SUFFICES ASSUME LoopInv, LoopStep PROVE LoopInv'
    OBVIOUS
  <1> USE Limits DEF LoopInv, TypeOK, BelowLimits, FailuresAreRefusals,
                     BreakerHolds, OpenIsCooling, Phases, Errors,
                     UnlessStopped, link, counters
  <1>1. CASE EnterTop
    BY <1>1 DEF EnterTop
  <1>2. CASE EndCooling
    BY <1>2 DEF EndCooling
  <1>3. CASE Recover
    BY <1>3 DEF Recover, AtMost
  <1>4. CASE AskForRebuild
    BY <1>4 DEF AskForRebuild, MustRebuild, Allowed
  <1>5. CASE Wait
    BY <1>5 DEF Wait, AtMost
  <1>6. CASE EndWait
    BY <1>6 DEF EndWait
  <1>7. CASE Rebuilt
    <2>1. TypeOK'
      BY <1>7, Fresh DEF Rebuilt
    <2> QED
      BY <1>7, <2>1, Fresh DEF Rebuilt
  <1>8. CASE NormalReturn
    BY <1>8 DEF NormalReturn
  <1> QED
    BY <1>1, <1>2, <1>3, <1>4, <1>5, <1>6, <1>7, <1>8 DEF LoopStep

LEMMA ConnectStepKeeps == LoopInv /\ ConnectStep => LoopInv'
  <1> SUFFICES ASSUME LoopInv, ConnectStep PROVE LoopInv'
    OBVIOUS
  <1>1. CASE Authenticated
    <2>1. TypeOK'
      BY <1>1, Fresh DEF Authenticated, ForgetAuth, LoopInv, TypeOK, Phases, Healths
    <2>2. BelowLimits'
      BY <1>1, Fresh DEF Authenticated, BelowLimits, NoFails
    <2> QED
      BY <1>1, <2>1, <2>2, Fresh
         DEF Authenticated, ForgetAuth, LoopInv, FailuresAreRefusals,
             BreakerHolds, OpenIsCooling
  <1>2. ASSUME NEW e \in Errors \ {"none"}, ConnectFails(e) PROVE LoopInv'
    <2>1. /\ phase' = "failed" /\ err' = e
          /\ UNCHANGED <<stopEvent, attempts, ledger, authFails, link, decryptFails>>
          /\ breaker' \in 0..MaxBreaker
          /\ cooldown' \in {"none", "running", "over"}
          /\ BreakerHolds' /\ OpenIsCooling'
      BY <1>2, FailOpens DEF ConnectFails
    <2>2. FailuresAreRefusals'
      BY <1>2, <2>1, Limits
         DEF ConnectFails, AtMost, FailuresAreRefusals, LoopInv, TypeOK
    <2> QED
      BY <2>1, <2>2 DEF LoopInv, TypeOK, BelowLimits, link, Phases
  <1> QED
    BY <1>1, <1>2 DEF ConnectStep

LEMMA LinkStepKeeps ==
  ASSUME LoopInv,
         \/ Elapse
         \/ \E h \in Healths \ {"good"} : Worsen(h)
         \/ TimerDies \/ SeeDeadTimer \/ VerifyPort \/ Keepalive
         \/ RefreshSettings \/ Probe \/ GoodFrame \/ BadFrame
  PROVE  LoopInv'
<1>1. CASE Elapse
  BY <1>1 DEF Elapse, LoopInv, TypeOK, BelowLimits, FailuresAreRefusals,
              BreakerHolds, OpenIsCooling, link
<1>2. ASSUME NEW h \in Healths \ {"good"}, Worsen(h) PROVE LoopInv'
  BY <1>2 DEF Worsen, LoopInv, TypeOK, BelowLimits, FailuresAreRefusals,
              BreakerHolds, OpenIsCooling, counters
<1>3. CASE TimerDies
  BY <1>3 DEF TimerDies, LoopInv, TypeOK, BelowLimits, FailuresAreRefusals,
              BreakerHolds, OpenIsCooling, counters
<1>4. CASE SeeDeadTimer \/ Probe
  BY <1>4, LinkFailKeeps DEF SeeDeadTimer, Probe, link, LoopInv, TypeOK
<1>5. CASE VerifyPort
  BY <1>5, CountKeeps DEF VerifyPort, VerifyCounts
<1>6. CASE Keepalive
  BY <1>6, CountKeeps DEF Keepalive
<1>7. CASE RefreshSettings
  <2>1. RefreshFails \in BOOLEAN
    BY DEF RefreshFails
  <2> QED
    BY <1>7, <2>1, CountKeeps DEF RefreshSettings
<1>8. CASE GoodFrame
  BY <1>8, Limits
     DEF GoodFrame, LoopInv, TypeOK, BelowLimits, FailuresAreRefusals,
         BreakerHolds, OpenIsCooling, counters, link
<1>9. CASE BadFrame
  <2>1. decryptFails' \in 0..MaxDecrypt
    BY <1>9, Limits DEF BadFrame, AtMost, LoopInv, TypeOK
  <2>2. CASE decryptFails + 1 >= MaxDecrypt
    BY <1>9, <2>1, <2>2, LinkFailKeeps DEF BadFrame, link, LoopInv, TypeOK
  <2>3. CASE ~(decryptFails + 1 >= MaxDecrypt)
    BY <1>9, <2>1, <2>3
       DEF BadFrame, LoopInv, TypeOK, BelowLimits, FailuresAreRefusals,
           BreakerHolds, OpenIsCooling, link
  <2> QED
    BY <2>2, <2>3
<1> QED
  BY <1>1, <1>2, <1>3, <1>4, <1>5, <1>6, <1>7, <1>8, <1>9

LEMMA OutsideKeeps ==
  ASSUME LoopInv, Stop \/ StartAgain \/ SpendByOther \/ EntryExpires
  PROVE  LoopInv'
<1> USE Limits DEF LoopInv, TypeOK, BelowLimits, FailuresAreRefusals,
                   BreakerHolds, OpenIsCooling, link, counters
<1>1. CASE Stop
  BY <1>1 DEF Stop
<1>2. CASE StartAgain
  <2>1. TypeOK'
    BY <1>2, Fresh DEF StartAgain, Phases, Errors
  <2> QED
    BY <1>2, <2>1, Fresh DEF StartAgain
<1>3. CASE SpendByOther
  BY <1>3 DEF SpendByOther, Allowed
<1>4. CASE EntryExpires
  BY <1>4 DEF EntryExpires
<1> QED
  BY <1>1, <1>2, <1>3, <1>4

LEMMA LoopNext == LoopInv /\ [Next]_vars => LoopInv'
  <1> SUFFICES ASSUME LoopInv, [Next]_vars PROVE LoopInv'
    OBVIOUS
  <1>1. CASE UNCHANGED vars
    BY <1>1 DEF vars, link, counters, LoopInv, TypeOK, BelowLimits,
                FailuresAreRefusals, BreakerHolds, OpenIsCooling
  <1>2. CASE Next
    BY <1>2, LoopStepKeeps, ConnectStepKeeps, LinkStepKeeps, OutsideKeeps
       DEF Next
  <1> QED
    BY <1>1, <1>2

LEMMA LoopAlways == Spec => []LoopInv
  BY LoopInit, LoopNext, PTL DEF Spec

(* Every counter of the loop keeps within the limit the code compares it
   with, in every order of failures, stops and restarts. *)
THEOREM LoopTypes == Spec => []TypeOK
<1>1. LoopInv => TypeOK
  BY DEF LoopInv
<1> QED
  BY <1>1, LoopAlways, PTL

(* A session is only rebuilt when the charger refused MaxAuth logins since
   the last one it accepted, and all devices together stay in the budget. *)
THEOREM RebuildsAreEarned == Spec => []RebuildIsEarned
<1>1. LoopInv => RebuildIsEarned
  BY DEF LoopInv, FailuresAreRefusals, TypeOK, RebuildIsEarned
<1> QED
  BY <1>1, LoopAlways, PTL

(* Neither a stop and a new start nor a failed wait gets past the circuit
   breaker: whoever connects finds it closed. *)
THEOREM BreakerIsRespected == Spec => []BreakerHolds
<1>1. LoopInv => BreakerHolds
  BY DEF LoopInv
<1> QED
  BY <1>1, LoopAlways, PTL
==============================================================================
