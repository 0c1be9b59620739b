----------------------------- MODULE SessionRules -----------------------------
(***************************************************************************)
(* When a charge begins and when it is over (energy.py, and                *)
(* BLEManager._manage_session, which feeds it one reading at a time).      *)
(*                                                                         *)
(* A charge begins when the power has been above a threshold for           *)
(* START_HOLD_SEC.  It ends when the port is switched off, when no current *)
(* has flowed for a while, or when the power has "converged": the medians  *)
(* of a short and of a long window have been low for HOLD_SEC, short       *)
(* fluctuations aside.                                                     *)
(*                                                                         *)
(* Power is in hundredths of a watt, at 5 V; times are in ticks, and       *)
(* elapsed times are kept instead of time stamps.  Readings are pushed by  *)
(* the charger or made by a timer, and are treated in the timer's order,   *)
(* judged first and then integrated.  What else a beginning or an end does *)
(* is in ChargeSession and PortLimits; arming the switch-off of an idle    *)
(* port is in PortLimits.                                                  *)
(***************************************************************************)
EXTENDS Integers, Sequences, FiniteSetsExt

CONSTANTS
    Powers,     \* what a port may be read to deliver, 0 included
    MaxGap,     \* the longest time between two readings
    Fast, Slow, Assess, Recent,      \* FAST_SEC, SLOW_SEC, ASSESS_SEC, RECENT_SEC
    HoldTime, GraceTime, Recover,    \* HOLD_SEC, GRACE_SEC, RECOVER_SEC
    MinAge, StartHold, Debounce      \* MIN_SEC, START_HOLD_SEC, NO_LOAD_DEBOUNCE_SEC

RulesConstants ==
    /\ Powers \subseteq Nat /\ 0 \in Powers
    /\ {MaxGap, HoldTime, StartHold} \subseteq Nat \ {0}
    /\ {Fast, Slow, Assess, Recent, GraceTime, Recover, MinAge, Debounce} \subseteq Nat
    /\ Fast <= Slow /\ Recent <= Slow /\ GraceTime < Assess
    /\ 0 < Recover /\ Recover <= Recent /\ 2 * Recover <= Assess

VARIABLES
    window,    \* _samples: power and age of each, the newest last
    peak,      \* _peak: the highest median of a short window
    hold,      \* time since _hold_since, or Never
    grace,     \* _grace: time not converged within it
    eval,      \* time since _last_eval
    post,      \* _post_session: has a charge just ended here
    restart,   \* _restart_w
    above,     \* time since _above_since, or Never
    charging,  \* is_charging
    age,       \* time since session_start, up to MinAge
    enough,    \* has session_wh reached MIN_WH
    top,       \* max_power of the charge
    idle,      \* time since _no_load_since, or Never
    tail,      \* history: how long a charge has drawn next to nothing
    strong,    \* history: how long every reading has been of a charge in earnest
    calm,      \* history: time since the device last charged in earnest
    residual,  \* history: has it drawn no more than a residue since a charge
    judged     \* history: has the last reading ended a charge as converged

detector == <<window, peak, hold, grace, eval>>
gate == <<post, restart, above>>
energy == <<charging, age, enough, top, idle>>
history == <<tail, strong, calm, residual, judged>>
vars == <<detector, gate, energy, history>>

Never == -1
Later(t, gap, most) == IF t = Never THEN Never ELSE Min({t + gap, most})

Init ==
    /\ window = <<>> /\ peak = 0 /\ hold = Never /\ grace = 0 /\ eval = 0
    /\ post = FALSE /\ restart = 0 /\ above = Never
    /\ charging = FALSE /\ age = 0 /\ enough = FALSE /\ top = 0 /\ idle = Never
    /\ tail = Never /\ strong = Never /\ calm = 0 /\ residual = FALSE /\ judged = FALSE

-----------------------------------------------------------------------------
(* The detector's statistics. *)

(* tail_threshold_w: a fifth of the peak, from 0.05 W to 0.6 W.            *)
Threshold(highest) == Max({5, Min({60, highest \div 5})})
RecoverThreshold(highest) == Max({500, 2 * Threshold(highest)})

(* The k-th smallest of the values of a sequence.                          *)
Ranked(s, k) ==
    Min({s[i] : i \in {j \in DOMAIN s : Cardinality({l \in DOMAIN s : s[l] <= s[j]}) >= k}})

Median(s) ==
    LET half == Len(s) \div 2
    IN IF s = <<>> THEN 0
       ELSE IF Len(s) % 2 = 1 THEN Ranked(s, half + 1)
       ELSE (Ranked(s, half) + Ranked(s, half + 1)) \div 2

(* The readings that are at most so old: the newest are the last.          *)
Within(w, most) ==
    LET recent == {i \in DOMAIN w : w[i].ago <= most}
    IN IF recent = {} THEN <<>> ELSE SubSeq(w, Min(recent), Len(w))

MedianOf(w, most) ==
    LET recent == Within(w, most) IN Median([i \in DOMAIN recent |-> recent[i].power])

(* feed: the window grows older, and gets a new reading.                  *)
Aged(gap) ==
    Within([i \in DOMAIN window |-> [window[i] EXCEPT !.ago = @ + gap]], Assess)
Fed(gap, p) == Append(Aged(gap), [power |-> p, ago |-> 0])

(* recovery_sec: the longest time within the recent window for which every *)
(* reading was above the threshold, the gap before the first one included. *)
RunLengths(w, limit) ==
    [i \in DOMAIN w |->
        LET first == {j \in 1..i : w[j].ago <= Recent}
            run == {j \in first : \A k \in j..i : w[k].power > limit}
            start == IF run = {} THEN i ELSE Max({Min(run) - 1, 1})
        IN w[start].ago - w[i].ago]
RecoverySecOfAll(w, limit) ==  \* mutant
    Max({0} \cup {w[j].ago : j \in {k \in DOMAIN w : w[k].power > limit}})
RecoverySec(w, limit) == Max({0} \cup {RunLengths(w, limit)[i] : i \in DOMAIN w})

NeverRecovered(w, highest) == FALSE  \* mutant
Recovered(w, highest) == RecoverySec(w, RecoverThreshold(highest)) >= Recover

Converged(w, highest) ==
    MedianOf(w, Fast) <= Threshold(highest) /\ MedianOf(w, Slow) <= Threshold(highest)

-----------------------------------------------------------------------------
(* The beginning. *)

(* 0.5 W, or 0.1 A at 5 V; more after a charge until something clears it.  *)
BaseThreshold == 50
BaseOnly == BaseThreshold  \* mutant
ThresholdNow == IF post THEN Max({BaseThreshold, restart}) ELSE BaseThreshold

(* note_no_load *)
NoLoad == post' = FALSE /\ above' = Never /\ UNCHANGED restart

(* note_session_end: thresholds are raised until something clears them.    *)
SessionEnd ==
    /\ post' = TRUE
    /\ restart' = Max({40, 2 * Threshold(top)})
    /\ above' = Never

(* _start_session: the readings of the run that opened it count from its   *)
(* first one on; the detector starts with them alone.                      *)
Begin(w, run) ==
    LET since == Within(w, run)
        upTo(i) == [j \in 1..i |-> [since[j] EXCEPT !.ago = @ - since[i].ago]]
    IN
    /\ charging' = TRUE
    /\ age' = Min({run, MinAge})
    /\ enough' = FALSE
    /\ top' = Max({since[i].power : i \in DOMAIN since})
    /\ idle' = Never
    /\ window' = since
    /\ peak' = Max({MedianOf(upTo(i), Fast) : i \in DOMAIN since})
    /\ hold' = Never /\ grace' = 0 /\ eval' = 0

(* should_start, asked for each reading of an active port.  Outside a      *)
(* charge the window is all that is used of the detector.                  *)
MayBegin(w, gap) ==
    LET run == IF above = Never THEN 0 ELSE above + gap
        high == MedianOf(w, Fast) >= ThresholdNow
    IN
    \/ /\ high /\ run >= StartHold
       /\ Begin(w, run)
       /\ above' = Never /\ post' = FALSE /\ UNCHANGED restart
    \/ /\ ~(high /\ run >= StartHold)
       /\ window' = w
       /\ above' = (IF high THEN run ELSE Never)
       /\ UNCHANGED <<peak, hold, grace, eval, post, restart, energy>>

(* A port that is off, or reads nothing, is not asked.                     *)
NotAsked(w, gap) ==
    /\ window' = w
    /\ above' = Later(above, gap, StartHold)
    /\ UNCHANGED <<peak, hold, grace, eval, post, restart, energy>>

(* _should_sample_port: without a charge, a port that reads nothing at all *)
(* is not sampled by the timer, and the residue is over.                   *)
Skipped(gap) ==
    /\ window' = Aged(gap)
    /\ NoLoad
    /\ UNCHANGED <<peak, hold, grace, eval, energy>>

-----------------------------------------------------------------------------
(* The end. *)

(* _close_session: residues must not open a new charge, unless the device  *)
(* was pulled out.                                                         *)
Close(reason) ==
    /\ charging' = FALSE
    /\ window' = <<>> /\ peak' = 0 /\ hold' = Never /\ grace' = 0 /\ eval' = 0
    /\ IF reason = "unplug" THEN NoLoad ELSE SessionEnd
    /\ idle' = Never /\ age' = 0 /\ enough' = FALSE /\ top' = 0

(* should_end: how the hold and the grace within it go on.                 *)
Holds(w, seen, before, dt, ready) ==
    LET none == [hold |-> Never, grace |-> 0]
    IN
    IF ~ready \/ Recovered(w, seen) THEN none
    ELSE IF Converged(w, seen)
    THEN IF before = Never THEN [hold |-> 0, grace |-> 0]
                           ELSE [hold |-> before, grace |-> grace]
    ELSE IF before = Never THEN [hold |-> Never, grace |-> grace]
    ELSE IF grace + dt > GraceTime THEN none
    ELSE [hold |-> before, grace |-> grace + dt]

(* _manage_session for a port in use. *)
Charging(w, p, gap, up) ==
    LET seen == Max({peak, MedianOf(w, Fast)})
        before == IF up THEN Later(hold, gap, HoldTime) ELSE Never
        old == Min({age + gap, MinAge})
    IN
    IF p = 0
    THEN \/ /\ idle # Never /\ idle + gap >= Debounce
            /\ Close(IF up THEN "no_load" ELSE "unplug")
         \/ /\ idle = Never \/ idle + gap < Debounce
            /\ idle' = (IF idle = Never THEN 0 ELSE idle + gap)
            /\ window' = w /\ peak' = seen /\ hold' = before
            /\ eval' = Min({eval + gap, GraceTime + 1})
            /\ age' = old
            /\ NoLoad
            /\ UNCHANGED <<grace, charging, enough, top>>
    ELSE \E e \in {enough, TRUE} :
            LET ready == e /\ old >= MinAge
                held == Holds(w, seen, before, eval + gap, ready)
            IN IF held.hold >= HoldTime
               THEN Close("low_power")
               ELSE /\ window' = w /\ peak' = seen
                    /\ hold' = held.hold /\ grace' = held.grace
                    /\ eval' = 0
                    /\ age' = old /\ enough' = e /\ top' = Max({top, p})
                    /\ idle' = Never
                    /\ UNCHANGED <<charging, gate>>

Sample(gap, up, p) ==
    LET w == Fed(gap, p)
    IN
    \/ /\ charging
       /\ Charging(w, p, gap, up)
       /\ judged' = (~charging' /\ p > 0)
    \/ charging /\ Close("user_off") /\ judged' = FALSE
    \/ ~charging /\ MayBegin(w, gap) /\ judged' = FALSE
    \/ ~charging /\ NotAsked(w, gap) /\ judged' = FALSE
    \/ ~charging /\ ~up /\ Skipped(gap) /\ judged' = FALSE

Low(p) == 0 < p /\ p <= Threshold(peak')

(* A charge is known to be over when the long median has followed, one     *)
(* reading late at most, and HOLD_SEC are over.                            *)
FullBy == Slow + MaxGap - 1 + HoldTime

Note(gap, up, p) ==
    /\ tail' = IF charging' /\ enough' /\ age' >= MinAge /\ Low(p)
                 THEN IF tail = Never THEN 0 ELSE Min({tail + gap, FullBy})
                 ELSE Never
    /\ strong' = IF p <= RecoverThreshold(peak') THEN Never
                  ELSE IF strong = Never THEN 0 ELSE Min({strong + gap, Recover})
    /\ calm' = IF strong' >= Recover THEN 0 ELSE Min({calm + gap, HoldTime})
    /\ residual' = IF charging /\ ~charging' THEN up
                   ELSE residual /\ up /\ p < Max({BaseThreshold, restart})

Next ==
    \E gap \in 1..MaxGap, p \in Powers, up \in BOOLEAN :
        /\ p > 0 => up
        /\ Sample(gap, up, p)
        /\ Note(gap, up, p)

Spec == Init /\ [][Next]_vars

-----------------------------------------------------------------------------
(* The rules' variables have their types.                                  *)
TypeOK ==
    /\ window \in Seq([power : Powers, ago : 0..Assess])
    /\ {peak, grace, eval, restart, age, top, calm} \subseteq Nat
    /\ {hold, above, idle, tail, strong} \subseteq Nat \cup {Never}
    /\ {post, charging, enough, residual, judged} \subseteq BOOLEAN

(* A device that has been drawing next to nothing for HOLD_SEC, and for    *)
(* as long as the long median takes to follow, is not taken to be charging *)
(* any more, whatever happened before (should_end).                        *)
FullIsNoticed == tail < FullBy

(* A charge is only said to have converged when the device has not charged *)
(* in earnest, for RECOVER_SEC without a break, for HOLD_SEC (should_end,  *)
(* recovery_sec).                                                          *)
ConvergedIsCalm == judged => calm >= HoldTime

(* After a charge, a device that stays plugged in and draws no more than   *)
(* a residue does not begin another one (SessionStartGate).                *)
ResidueOpensNothing == [][~charging /\ charging' => ~residual']_vars
===============================================================================
