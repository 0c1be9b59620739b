------------------------------ MODULE MCServices ------------------------------
(***************************************************************************)
(* The components of the link and of the services around it that share no  *)
(* state with each other, checked together: every behaviour is one of one  *)
(* part, which is chosen at the beginning, and the variables of the other  *)
(* parts keep their initial values.                                        *)
(***************************************************************************)
EXTENDS Integers, Sequences, FiniteSets

CONSTANTS
    Parts,          \* those that a run is about
    LoginAttempts,                                               \* Handshake
    LowValues, MaxGap, MaxNoise, MaxFails,                       \* FrameCounter
    Devices, QueueMax, MaxStatus, MaxEvents,                     \* StatusStream
    StatusRequests, MaxVersion,                                  \* StatusCache
    MaxLost, MaxFlight, MaxFlaws,                                \* BemfaClient
    Ports, OffAttempts, QueueSize,                               \* PortLimits
    MaxSaves, MaxMishaps,                                        \* ConfigRestart
    Requests, Ttl, Limit, Budget, ConnectTime, ReadTime, MaxCalls,   \* CloudImport
    Callers                                                      \* ScanMerge

VARIABLES
    part,
    step, tries, inbox, result, session, keys, sent, replays, theirs,
    next, unseen, low, ahead, failed, readable, noise, noisy,
    latest, events, client, waiting, stream, toFlush, told, dropped,
    version, announced, body, copied, late, missed,
    broker, chains, monitor, pingLost, pong, repair, missing, cache, flight,
    grace, overlap, fooled, flaws,
    link, port, charge, limit, limitFired, fullOff, pending, attempts, armed,
    permanent, queue,
    file, proc, conf, managers, purges, due, retained, cloud, recorded, todo,
    saves, mishaps, refused, torn,
    timer, scanned, listed, handlers, threads, age, lock, cut,
    caller, leader, future, board, line, stopped, bare

-----------------------------------------------------------------------------
Config(devices, names, valid) ==
    [devices |-> devices, names |-> names, valid |-> valid]
ConfigSaves ==
    {Config({"d1", "d2"}, "old", TRUE), Config({"d1"}, "old", TRUE),
     Config({"d1", "d2"}, "new", TRUE), Config({"d2"}, "new", FALSE)}

SearchedBy(c) == IF c = "t4" THEN "d2" ELSE "d1"

H == INSTANCE Handshake WITH MaxAttempts <- LoginAttempts
F == INSTANCE FrameCounter WITH Range <- LowValues
S == INSTANCE StatusStream WITH pending <- waiting, queue <- stream
T == INSTANCE StatusCache WITH Requests <- StatusRequests
B == INSTANCE BemfaClient
L == INSTANCE PortLimits WITH MaxAttempts <- OffAttempts
R == INSTANCE ConfigRestart WITH Saves <- ConfigSaves
X == INSTANCE CloudImport WITH Connect <- ConnectTime
C == INSTANCE ScanMerge WITH
        Addresses <- Devices, Target <- SearchedBy,
        pending <- board, dropped <- bare

ASSUME ServicesAssumption ==
    /\ H!HandshakeConstants /\ F!CounterConstants /\ S!StreamConstants
    /\ T!CacheConstants /\ B!ClientConstants
    /\ L!LimitsConstants /\ R!RestartConstants /\ X!ImportConstants
    /\ C!ScanConstants

hVars == <<step, tries, inbox, result, session, keys, sent, replays, theirs>>
fVars == <<next, unseen, low, ahead, failed, readable, noise, noisy>>
sVars == <<latest, events, client, waiting, stream, toFlush, told, dropped>>
tVars == <<version, announced, body, copied, late, missed>>
bVars == <<broker, chains, monitor, pingLost, pong, repair, missing, cache, flight,
           grace, overlap, fooled, flaws>>
lVars == <<link, port, charge, limit, limitFired, fullOff, pending, attempts, armed,
           permanent, queue>>
rVars == <<file, proc, conf, managers, purges, due, retained, cloud, recorded, todo,
           saves, mishaps, refused, torn>>
xVars == <<timer, scanned, listed, handlers, threads, age, lock, cut>>
cVars == <<caller, leader, future, board, line, stopped, bare>>
vars == <<part, hVars, fVars, sVars, tVars, bVars, lVars, rVars, xVars, cVars>>

-----------------------------------------------------------------------------
None == [p \in Ports |-> "none"]

(* Where a part may begin in several ways, the others begin in one.        *)
Init ==
    /\ part \in Parts
    /\ H!Init /\ (part # "handshake" => ~replays)
    /\ F!Init
    /\ S!Init
    /\ T!Init
    /\ B!Init /\ (part # "bemfa" => broker = "none")
    /\ L!Init /\ (part # "limits" => permanent = {} /\ limit = None /\ fullOff = None)
    /\ R!Init /\ (part # "restart" => file = R!File(Config({"d1"}, "old", TRUE), FALSE))
    /\ X!Init /\ (part # "import" => ~scanned)
    /\ C!Init

Handshake ==
    /\ part = "handshake" /\ H!Next
    /\ UNCHANGED <<part, fVars, sVars, tVars, bVars, lVars, rVars, xVars, cVars>>
Counter ==
    /\ part = "counter" /\ F!Next
    /\ UNCHANGED <<part, hVars, sVars, tVars, bVars, lVars, rVars, xVars, cVars>>
Stream ==
    /\ part = "stream" /\ S!Next
    /\ UNCHANGED <<part, hVars, fVars, tVars, bVars, lVars, rVars, xVars, cVars>>
Status ==
    /\ part = "status" /\ T!Next
    /\ UNCHANGED <<part, hVars, fVars, sVars, bVars, lVars, rVars, xVars, cVars>>
Bemfa ==
    /\ part = "bemfa" /\ B!Next
    /\ UNCHANGED <<part, hVars, fVars, sVars, tVars, lVars, rVars, xVars, cVars>>
Limits ==
    /\ part = "limits" /\ L!Next
    /\ UNCHANGED <<part, hVars, fVars, sVars, tVars, bVars, rVars, xVars, cVars>>
Restart ==
    /\ part = "restart" /\ R!Next
    /\ UNCHANGED <<part, hVars, fVars, sVars, tVars, bVars, lVars, xVars, cVars>>
Import ==
    /\ part = "import" /\ X!Next
    /\ UNCHANGED <<part, hVars, fVars, sVars, tVars, bVars, lVars, rVars, cVars>>

Scan ==
    /\ part = "scan" /\ C!Next
    /\ UNCHANGED <<part, hVars, fVars, sVars, tVars, bVars, lVars, rVars, xVars>>

Next ==
    \/ Handshake \/ Counter \/ Stream \/ Status \/ Bemfa \/ Limits \/ Restart
    \/ Import \/ Scan

(* Each part's fairness.                                                   *)
Fairness ==
    /\ WF_hVars(part = "handshake" /\ H!HostStep)
    /\ WF_fVars(part = "counter" /\ F!Receive)
    /\ WF_sVars(part = "stream" /\ S!Send)
    /\ \A d \in Devices : WF_sVars(part = "stream" /\ S!Flush(d))
    /\ WF_bVars(part = "bemfa" /\ B!Timers)
    /\ WF_lVars(part = "limits" /\ (L!RunCommand \/ L!CommandFails))
    /\ \A p \in Ports :
          /\ WF_lVars(part = "limits" /\ (L!ConfirmFullOff(p) \/ L!RetryFullOff(p)))
          /\ SF_lVars(part = "limits" /\ L!Room /\ L!EnforceChargeLimit(p))
          /\ SF_lVars(part = "limits" /\ L!RunCommand
                         /\ Head(queue) = L!Command(p, FALSE, TRUE))
    /\ WF_rVars(part = "restart" /\ R!Stops)
    /\ WF_rVars(part = "restart" /\ R!Starts)
    /\ WF_xVars(part = "import" /\ X!Goes)
    /\ \A c \in Callers : WF_cVars(part = "scan" /\ C!Goes(c))

Spec == Init /\ [][Next]_vars /\ Fairness

-----------------------------------------------------------------------------
(* The properties of the parts, see there.  A few are void for the other   *)
(* parts, whose variables stand still.                                     *)

(* Every part's type invariant.                                            *)
TypesOK ==
    /\ H!TypeOK /\ F!TypeOK /\ S!TypeOK /\ T!TypeOK /\ B!TypeOK
    /\ L!TypeOK /\ R!TypeOK /\ X!TypeOK /\ C!TypeOK

(* Handshake and ScanMerge: a login has the keys of this very session, and *)
(* who looks for a device gets an answer, or was stopped.                  *)
LinkIsOurs == H!KeysAgree /\ C!AnsweredUnlessStopped

(* FrameCounter: only noise can make the host lose count, and not for ever. *)
FramesAreRead == F!ReadsEveryFrame /\ F!ReadsAgain

(* StatusStream and StatusCache: nothing is kept for a client that is      *)
(* gone, and a body is no older than the last invalidation, or was stored  *)
(* over one.                                                               *)
StreamIsClean == S!NothingLeftBehind /\ T!BodyIsCurrent

(* BemfaClient: there is one ping cycle, it gives up no connection that    *)
(* answers, and an echo is not a command.                                  *)
ClientIsSane == B!OneCycle /\ B!OnlyWhenLost /\ B!EchoIsNoCommand

(* PortLimits: only what is still wanted is retried, the mark "limit       *)
(* fired" is this charge's, permanent ports have neither limits nor        *)
(* full_off, and a lost link spends no one-shot limit.                     *)
LimitsAreKept ==
    /\ [](L!SwitchOffIsWanted /\ L!FiredIsThisCharge /\ L!PermanentIsExclusive)
    /\ L!OnlyRealEndsSpend

(* ConfigRestart: the program starts with its file, and the cloud has what *)
(* is configured.                                                          *)
RestartIsSafe == R!FileBoots /\ R!CloudIsConfigured

(* CloudImport: one thread fetches at a time, and an expired session is    *)
(* not brought back.                                                       *)
ImportIsSafe == []X!OneFetches /\ X!ExpiredStaysExpired

(* What is begun comes to an end.  Handshake: an attempt.  ScanMerge: a    *)
(* search.  StatusStream: a status on its way to the client.  BemfaClient: *)
(* a half-open connection.  PortLimits: switching off, and a charge that   *)
(* has reached its limit.  ConfigRestart: a restart with what was saved.   *)
(* CloudImport: a session.                                                 *)
ServicesGoOn ==
    /\ H!AttemptEnds /\ C!CallsEnd
    /\ S!LatestReaches /\ B!HalfOpenEnds
    /\ L!FullOffResolves /\ L!LimitIsEnforced
    /\ R!SavedIsRun /\ (part = "import" => X!SessionEnds)

(* StatusStream: "stale status never delivered".                           *)
NeverBackwards == S!NeverBackwards
(* ConfigRestart: no "ghost" of a device that was removed.                 *)
NoGhosts == R!NoGhosts
===============================================================================
