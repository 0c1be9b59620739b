------------------------------- MODULE MCStores -------------------------------
(***************************************************************************)
(* The components that keep data and share none of it, and the rules that  *)
(* say when there is a charge to keep data about, checked together:        *)
(* every behaviour is one of one part, which is chosen at the beginning,   *)
(* and the variables of the other parts keep their initial values.         *)
(***************************************************************************)
EXTENDS Integers, Sequences, FiniteSets, TLC

CONSTANTS
    Ports, Requests, MaxRequests, MaxJobs, MaxFaults,   \* SettingsStore
    Threads, BatchSize, MaxRows,                        \* HistoryBuffer
    Clients, Switches, Other, Writes, MaxCommands, MaxMishaps,  \* ProtocolSwitches
    Powers, MaxGap, Fast, Slow, Assess, Recent,         \* SessionRules
    HoldTime, GraceTime, Recover, MinAge, StartHold, Debounce

VARIABLES
    part,
    limit, fullOff, permanent, table, unsaved, faults, writes, req, requests, mixed,
    buffer, disk, seen, holder, jobs, recorded, gone, buried,
    charger, copy, commands, resuming, astray, mishaps,
    window, peak, hold, grace, eval, post, restart, above, charging, age, enough,
    top, idle, tail, strong, calm, residual, judged

-----------------------------------------------------------------------------
Symmetry ==
    UNION {Permutations(S) : S \in {Ports, Requests}}

PortOf(s) == IF s \in {"c1.pd", "c1.pps"} THEN "c1" ELSE "c2"

S == INSTANCE SettingsStore WITH jobs <- writes
D == INSTANCE HistoryBuffer
E == INSTANCE SessionRules
P == INSTANCE ProtocolSwitches

ASSUME StoresAssumption ==
    /\ S!StoreConstants /\ D!BufferConstants /\ P!SwitchesConstants
    /\ E!RulesConstants

sVars == <<limit, fullOff, permanent, table, unsaved, faults, writes, req, requests, mixed>>
dVars == <<buffer, disk, seen, holder, jobs, recorded, gone, buried>>
pVars == <<charger, copy, commands, resuming, astray, mishaps>>
eVars == <<window, peak, hold, grace, eval, post, restart, above, charging, age,
           enough, top, idle, tail, strong, calm, residual, judged>>
vars == <<part, sVars, dVars, pVars, eVars>>

-----------------------------------------------------------------------------
(* Where a part may begin in several ways, the others begin in one.        *)
Init ==
    /\ part \in {"settings", "history", "switches", "charge"}
    /\ S!Init
    /\ part # "settings" =>
          permanent = {} /\ limit = S!NoSetting /\ fullOff = S!NoSetting
    /\ D!Init
    /\ P!Init /\ (part # "switches" => charger = {})
    /\ E!Init

Settings == part = "settings" /\ S!Next /\ UNCHANGED <<part, dVars, pVars, eVars>>
History == part = "history" /\ D!Next /\ UNCHANGED <<part, sVars, pVars, eVars>>
Protocols == part = "switches" /\ P!Next /\ UNCHANGED <<part, sVars, dVars, eVars>>
Charge == part = "charge" /\ E!Next /\ UNCHANGED <<part, sVars, dVars, pVars>>

Next == Settings \/ History \/ Protocols \/ Charge

Spec == Init /\ [][Next]_vars

(* What TLC checks: settings whose writes overlap and settings whose       *)
(* writes fail, and not both in one behaviour.                             *)
Apart == mixed => faults = 0
MCSpec == Init /\ [][Next /\ Apart']_vars

-----------------------------------------------------------------------------
(* The properties of the parts, see there.                                 *)

(* Every part's type invariant.                                            *)
TypesOK == S!TypeOK /\ D!TypeOK /\ P!TypeOK /\ E!TypeOK

(* SettingsStore: full_off is never on for a permanent port, and at rest   *)
(* the table holds what the manager does.                                  *)
SettingsAgree == S!PermanentIsExclusive /\ S!PersistedAtRest

(* HistoryBuffer: a crash costs less than a batch, and what was deleted    *)
(* does not come back.                                                     *)
HistoryKept == D!OnlyABatchAtRisk /\ D!DeletedStaysDeleted
(* HistoryBuffer: reads see what was recorded before them, and under the   *)
(* lock only what is on disk.                                              *)
ReadsAreTrue == D!ReadsSeeRecorded /\ D!LockedReadsAreDurable

(* ProtocolSwitches: a toggle flips its switch and no other, and the copy  *)
(* it starts from is what the charger was told.                            *)
SwitchesTrue == P!OnlyItsSwitch /\ P!CopyIsTrue

(* SessionRules: a device that is full is noticed, none is cut short by a  *)
(* passing low, and what a full one still draws is no new charge.          *)
RulesHold ==
    [](E!FullIsNoticed /\ E!ConvergedIsCalm) /\ E!ResidueOpensNothing
===============================================================================
