----------------------- MODULE AdapterCoordinatorProofs -----------------------
(***************************************************************************)
(* Proofs about AdapterCoordinator for any number of devices, any number   *)
(* of connect slots and any thresholds: its types, the recovery gate, the  *)
(* registry of live links and the ladder L1 -> L1.5 -> L2.                 *)
(***************************************************************************)
EXTENDS AdapterCoordinator, FiniteSetTheorems, TLAPS

(* N is a number: what turns ~(N > 1) into N <= 1. *)
LEMMA NType == N \in Nat
  BY AdapterAssumption, FS_CardinalityType DEF N

(* Counters stay numbers, and a bumped counter is positive and beyond the
   threshold that the code compares the incremented value with. *)
LEMMA BumpFacts ==
  ASSUME NEW f \in [Devices -> Nat], NEW m \in Devices
  PROVE  /\ Bump(f, m) \in [Devices -> Nat]
         /\ \A d \in Devices \ {m} : Bump(f, m)[d] = f[d]
         /\ Bump(f, m)[m] > 0
         /\ f[m] + 1 > L1Before => Bump(f, m)[m] > L1Before
  BY AdapterAssumption DEF Bump

LEMMA ZeroFacts ==
  ASSUME NEW f \in [Devices -> Nat], NEW m \in Devices
  PROVE  /\ Zero(f, m) \in [Devices -> Nat]
         /\ \A d \in Devices \ {m} : Zero(f, m)[d] = f[d]
         /\ Zero(f, m)[m] = 0
  BY DEF Zero

LEMMA RecoverAdapterTypes ==
  ASSUME TypeOK, NEW m \in Devices, NEW links \in SUBSET Devices,
         RecoverAdapter(m, links)
  PROVE  /\ mpc' \in [Devices -> Places]
         /\ gate' \in BOOLEAN
         /\ phase' \in {"none", "drop", "off", "on"}
         /\ victims' \in SUBSET Devices
         /\ powered' \in BOOLEAN
  BY DEF RecoverAdapter, BeginCycle, TypeOK, Places, cycleVars

-----------------------------------------------------------------------------
(* Every variable keeps its type in every step: in particular a connect slot
   is only ever taken when one is left. *)
THEOREM TypeCorrect == Spec => []TypeOK
<1>1. Init => TypeOK
  BY AdapterAssumption DEF Init, TypeOK, Places
<1>2. TypeOK /\ [Next]_vars => TypeOK'
  <2> SUFFICES ASSUME TypeOK, [Next]_vars PROVE TypeOK'
    OBVIOUS
  <2> USE DEF TypeOK
  <2>1. CASE UNCHANGED vars
    BY <2>1 DEF vars, counters, cycleVars
  <2>2. ASSUME NEW m \in Devices,
               \/ PassGate(m) \/ GetSlot(m) \/ Attempt(m)
        PROVE  TypeOK'
    BY <2>2 DEF PassGate, GetSlot, Attempt, TakeSlotOrQueue, Places, counters, cycleVars
  <2>3. ASSUME NEW m \in Devices, GetAdapterLock(m) PROVE TypeOK'
    BY <2>3 DEF GetAdapterLock, BeginCycle, Places, counters
  <2>4. ASSUME NEW m \in Devices, NoteConnected(m) PROVE TypeOK'
    BY <2>4, ZeroFacts DEF NoteConnected, ForgetFailures, Places, cycleVars
  <2>5. ASSUME NEW m \in Devices, NotFound(m) \/ Settled(m) PROVE TypeOK'
    BY <2>5 DEF NotFound, Settled, Release, Unregister, Places, counters, cycleVars
  <2>6. ASSUME NEW m \in Devices, LinkFails(m) PROVE TypeOK'
    BY <2>6 DEF LinkFails, Release, Places, counters, cycleVars
  <2>7. ASSUME NEW m \in Devices, Dropped(m) PROVE TypeOK'
    BY <2>7 DEF Dropped, Unregister, Places, counters, cycleVars
  <2>8. ASSUME NEW m \in Devices, L1Done(m) PROVE TypeOK'
    <3>1. l1' \in [Devices -> Nat]
      BY <2>8, BumpFacts DEF L1Done
    <3>2. live' \in SUBSET Devices
      BY <2>8 DEF L1Done, Unregister
    <3>3. CASE RecoverAdapter(m, live \ {m})
      BY <2>8, <3>1, <3>2, <3>3, RecoverAdapterTypes DEF L1Done
    <3>4. CASE /\ mpc' = [mpc EXCEPT ![m] = IF L1Spent(m) THEN "l15" ELSE AfterRecovery(m)]
               /\ UNCHANGED <<gate, cycleVars>>
      <4>1. mpc' \in [Devices -> Places]
        BY <3>4 DEF AfterRecovery, Places
      <4> QED
        BY <2>8, <3>1, <3>2, <3>4, <4>1 DEF L1Done, cycleVars
    <3> QED
      BY <2>8, <3>3, <3>4 DEF L1Done
  <2>9. ASSUME NEW m \in Devices, L15Done(m) PROVE TypeOK'
    <3>1. l15' \in [Devices -> Nat]
      BY <2>9, BumpFacts DEF L15Done
    <3>2. CASE CanResetAdapter
      <4>1. RecoverAdapter(m, live) /\ UNCHANGED <<after, slots, live, l1, backoff>>
        BY <2>9, <3>2 DEF L15Done
      <4> QED
        BY <3>1, <4>1, RecoverAdapterTypes
    <3>3. CASE ~CanResetAdapter
      <4>1. mpc' \in [Devices -> Places]
        BY <2>9, <3>3 DEF L15Done, AfterRecovery, Places
      <4> QED
        BY <2>9, <3>1, <3>3, <4>1 DEF L15Done, cycleVars
    <3> QED
      BY <3>2, <3>3
  <2>10. ASSUME NEW m \in Devices, NEW d \in victims, CycleDrop(m, d) PROVE TypeOK'
    BY <2>10 DEF CycleDrop, Unregister, counters
  <2>11. ASSUME NEW m \in Devices, PowerOff(m) \/ PowerOn(m) PROVE TypeOK'
    BY <2>11 DEF PowerOff, PowerOn, counters
  <2>12. ASSUME NEW m \in Devices, CycleDone(m) PROVE TypeOK'
    <3>1. mpc' \in [Devices -> Places]
      BY <2>12 DEF CycleDone, OpenGate, AfterRecovery, Places
    <3> QED
      BY <2>12, <3>1, ZeroFacts DEF CycleDone, OpenGate, ForgetFailures, counters
  <2>13. ASSUME NEW m \in Devices, RestartDevice(m) PROVE TypeOK'
    <3>1. l1' \in [Devices -> Nat] /\ l15' \in [Devices -> Nat] /\ backoff' \in SUBSET Devices
      BY <2>13, ZeroFacts DEF RestartDevice, ForgetFailures, counters
    <3>2. mpc' \in [Devices -> Places] /\ live' \in SUBSET Devices
      BY <2>13 DEF RestartDevice, Places
    <3> QED
      BY <2>13, <3>1, <3>2 DEF RestartDevice, cycleVars
  <2>14. ASSUME NEW m \in Devices, Started(m) PROVE TypeOK'
    BY <2>14 DEF Started, Places, counters, cycleVars
  <2>15. ASSUME NEW m \in Devices, Disable(m) PROVE TypeOK'
    <3>1. mpc' \in [Devices -> Places]
      BY <2>15 DEF Disable, OpenGate, Places
    <3>2. slots' \in Nat /\ after' \in [Devices -> {"rest", "recover", "stuck", "off"}]
      BY <2>15 DEF Disable, Release
    <3> QED
      BY <2>15, <3>1, <3>2 DEF Disable, OpenGate, counters
  <2> QED
    BY <2>1, <2>2, <2>3, <2>4, <2>5, <2>6, <2>7, <2>8, <2>9, <2>10, <2>11, <2>12,
       <2>13, <2>14, <2>15 DEF Next, RecoveryStep
<1> QED
  BY <1>1, <1>2, PTL DEF Spec
-----------------------------------------------------------------------------
(* The steps that neither enter nor leave the power cycle. *)
LEMMA OutsideCycle ==
  ASSUME TypeOK, NEW m \in Devices, NEW p \in Places \ {"cycle"},
         mpc[m] # "cycle", mpc' = [mpc EXCEPT ![m] = p]
  PROVE  At("cycle")' = At("cycle")
  BY DEF At, TypeOK

LEMMA BeginCycleGate ==
  ASSUME TypeOK, GateClosedOnlyInCycle, NEW m \in Devices, NEW links,
         At("cycle") = {}, BeginCycle(m, links)
  PROVE  GateClosedOnlyInCycle'
  BY DEF BeginCycle, GateClosedOnlyInCycle, At, TypeOK

LEMMA RecoverAdapterGate ==
  ASSUME TypeOK, GateClosedOnlyInCycle, NEW m \in Devices, NEW links,
         mpc[m] # "cycle", RecoverAdapter(m, links)
  PROVE  GateClosedOnlyInCycle'
<1>1. CASE At("cycle") \cup At("wait") = {}
  BY <1>1, BeginCycleGate DEF RecoverAdapter
<1>2. CASE At("cycle") \cup At("wait") # {}
  BY <1>2, OutsideCycle DEF RecoverAdapter, GateClosedOnlyInCycle, Places
<1> QED
  BY <1>1, <1>2

LEMMA OpenGateGate ==
  ASSUME TypeOK, GateClosedOnlyInCycle, NEW m \in Devices, NEW p \in Places \ {"cycle"},
         mpc[m] = "cycle", OpenGate(m, p)
  PROVE  GateClosedOnlyInCycle'
  BY DEF OpenGate, GateClosedOnlyInCycle, At, TypeOK

(* recover_adapter keeps the gate closed exactly while one manager is inside
   the power cycle: the lock admits one, and success, failure and cancellation
   all go through the finally that opens the gate. *)
THEOREM GateCorrect == Spec => []GateClosedOnlyInCycle
<1>1. Init => GateClosedOnlyInCycle
  BY DEF Init, GateClosedOnlyInCycle, At
<1>2. TypeOK /\ GateClosedOnlyInCycle /\ [Next]_vars => GateClosedOnlyInCycle'
  <2> SUFFICES ASSUME TypeOK, GateClosedOnlyInCycle, [Next]_vars
               PROVE  GateClosedOnlyInCycle'
    OBVIOUS
  <2>1. CASE UNCHANGED vars
    BY <2>1 DEF vars, GateClosedOnlyInCycle, At
  <2>2. ASSUME gate' = gate, NEW m \in Devices, NEW p \in Places \ {"cycle"},
               mpc[m] # "cycle", mpc' = [mpc EXCEPT ![m] = p]
        PROVE  GateClosedOnlyInCycle'
    BY <2>2, OutsideCycle DEF GateClosedOnlyInCycle
  <2>3. ASSUME NEW m \in Devices, PassGate(m) \/ GetSlot(m) \/ Attempt(m)
        PROVE  GateClosedOnlyInCycle'
    BY <2>3, <2>2 DEF PassGate, GetSlot, Attempt, TakeSlotOrQueue, Places
  <2>4. ASSUME NEW m \in Devices, NoteConnected(m) \/ NotFound(m) \/ Settled(m)
        PROVE  GateClosedOnlyInCycle'
    BY <2>4, <2>2 DEF NoteConnected, NotFound, Settled, Places
  <2>5. ASSUME NEW m \in Devices, LinkFails(m) \/ Started(m)
        PROVE  GateClosedOnlyInCycle'
    BY <2>5, <2>2 DEF LinkFails, Started, Places
  <2>6. ASSUME NEW m \in Devices, Dropped(m) PROVE GateClosedOnlyInCycle'
    <3>1. after[m] \in Places \ {"cycle", "recover"} \/ after[m] = "recover"
      BY DEF TypeOK, Places
    <3> QED
      BY <2>6, <2>2, <3>1 DEF Dropped, Places
  <2>7. ASSUME NEW m \in Devices, RestartDevice(m) PROVE GateClosedOnlyInCycle'
    BY <2>7, <2>2 DEF RestartDevice, Places
  <2>8. ASSUME NEW m \in Devices, L1Done(m) PROVE GateClosedOnlyInCycle'
    <3>1. CASE N <= 1
      BY <2>8, <3>1, RecoverAdapterGate DEF L1Done
    <3>2. CASE ~(N <= 1)
      BY <2>8, <3>2, <2>2 DEF L1Done, AfterRecovery, Places
    <3> QED
      BY <3>1, <3>2
  <2>9. ASSUME NEW m \in Devices, L15Done(m) PROVE GateClosedOnlyInCycle'
    <3>1. CASE CanResetAdapter
      BY <2>9, <3>1, RecoverAdapterGate DEF L15Done
    <3>2. CASE ~CanResetAdapter
      BY <2>9, <3>2, <2>2 DEF L15Done, AfterRecovery, Places
    <3> QED
      BY <3>1, <3>2
  <2>10. ASSUME NEW m \in Devices, GetAdapterLock(m) PROVE GateClosedOnlyInCycle'
    BY <2>10, BeginCycleGate DEF GetAdapterLock
  <2>11. ASSUME NEW m \in Devices,
                (\E d \in victims : CycleDrop(m, d)) \/ PowerOff(m) \/ PowerOn(m)
         PROVE  GateClosedOnlyInCycle'
    BY <2>11 DEF CycleDrop, PowerOff, PowerOn, GateClosedOnlyInCycle, At
  <2>12. ASSUME NEW m \in Devices, CycleDone(m) PROVE GateClosedOnlyInCycle'
    BY <2>12, OpenGateGate DEF CycleDone, AfterRecovery, Places
  <2>13. ASSUME NEW m \in Devices, Disable(m) PROVE GateClosedOnlyInCycle'
    <3>1. CASE mpc[m] = "cycle"
      BY <2>13, <3>1, OpenGateGate DEF Disable, Places
    <3>2. CASE mpc[m] # "cycle"
      BY <2>13, <3>2, <2>2 DEF Disable, Places
    <3> QED
      BY <3>1, <3>2
  <2> QED
    BY <2>1, <2>3, <2>4, <2>5, <2>6, <2>7, <2>8, <2>9, <2>10, <2>11, <2>12, <2>13
    DEF Next, RecoveryStep
<1> QED
  BY <1>1, <1>2, TypeCorrect, PTL DEF Spec
-----------------------------------------------------------------------------
(* LadderNoSkip is not inductive by itself: a device on its way from L1.5 to
   the adapter must already have spent its L1 attempts. *)
LadderClimbed ==
  N > 1 =>
    \A m \in Devices :
      /\ mpc[m] \in {"l15", "wait", "cycle"} => l1[m] > L1Before
      /\ mpc[m] \in {"wait", "cycle"} => l15[m] > 0

(* A step that brings nobody up the ladder and leaves the counters of those
   who are on it. *)
LEMMA OffTheLadder ==
  ASSUME LadderClimbed,
         \A d \in Devices :
            mpc'[d] \in {"l15", "wait", "cycle"} =>
              mpc'[d] = mpc[d] /\ l1'[d] = l1[d] /\ l15'[d] = l15[d]
  PROVE  LadderClimbed'
  BY DEF LadderClimbed, N

LEMMA RecoverAdapterLadder ==
  ASSUME TypeOK, LadderClimbed, NEW m \in Devices, NEW links,
         RecoverAdapter(m, links),
         l1[m] > L1Before, l1' = l1,
         l15'[m] > 0, \A d \in Devices \ {m} : l15'[d] = l15[d]
  PROVE  LadderClimbed'
<1>1. mpc' = [mpc EXCEPT ![m] = "cycle"] \/ mpc' = [mpc EXCEPT ![m] = "wait"]
  BY DEF RecoverAdapter, BeginCycle
<1> QED
  BY <1>1 DEF LadderClimbed, N, TypeOK

(* With several devices, the adapter's power cycle is asked for only by a
   device that went through L1 and L1.5 since its last connection. *)
THEOREM LadderCorrect == Spec => []LadderNoSkip
<1>1. Init => LadderClimbed
  BY DEF Init, LadderClimbed
<1>2. TypeOK /\ LadderClimbed /\ [Next]_vars => LadderClimbed'
  <2> SUFFICES ASSUME TypeOK, LadderClimbed, [Next]_vars PROVE LadderClimbed'
    OBVIOUS
  <2>1. CASE UNCHANGED vars
    BY <2>1 DEF vars, counters, LadderClimbed, N
  <2>2. ASSUME NEW m \in Devices,
               PassGate(m) \/ GetSlot(m) \/ Attempt(m) \/ NotFound(m) \/ Settled(m)
               \/ LinkFails(m) \/ Started(m)
        PROVE  LadderClimbed'
    BY <2>2, OffTheLadder
    DEF PassGate, GetSlot, Attempt, TakeSlotOrQueue, NotFound, Settled, LinkFails, Started,
        counters, TypeOK
  <2>3. ASSUME NEW m \in Devices, Dropped(m) PROVE LadderClimbed'
    BY <2>3, OffTheLadder DEF Dropped, counters, TypeOK
  <2>4. ASSUME NEW m \in Devices, NoteConnected(m) PROVE LadderClimbed'
    BY <2>4, OffTheLadder, ZeroFacts DEF NoteConnected, ForgetFailures, TypeOK
  <2>5. ASSUME NEW m \in Devices, RestartDevice(m) PROVE LadderClimbed'
    <3>1. \A d \in Devices \ {m} : l1'[d] = l1[d] /\ l15'[d] = l15[d]
      BY <2>5, ZeroFacts DEF RestartDevice, ForgetFailures, counters, TypeOK
    <3> QED
      BY <2>5, <3>1, OffTheLadder DEF RestartDevice, TypeOK
  <2>6. ASSUME NEW m \in Devices, L1Done(m) PROVE LadderClimbed'
    <3>1. CASE N <= 1
      BY <3>1, NType DEF LadderClimbed, N
    <3>2. CASE ~(N <= 1)
      <4>1. l1' = Bump(l1, m) /\ l15' = l15
        BY <2>6, <3>2 DEF L1Done
      <4>2. mpc' = [mpc EXCEPT ![m] = IF L1Spent(m) THEN "l15" ELSE AfterRecovery(m)]
        BY <2>6, <3>2 DEF L1Done
      <4>3. /\ \A d \in Devices \ {m} : l1'[d] = l1[d]
            /\ L1Spent(m) => l1'[m] > L1Before
        BY <4>1, BumpFacts DEF L1Spent, TypeOK
      <4> QED
        BY <4>1, <4>2, <4>3 DEF LadderClimbed, N, AfterRecovery, TypeOK
    <3> QED
      BY <3>1, <3>2
  <2>7. ASSUME NEW m \in Devices, L15Done(m) PROVE LadderClimbed'
    <3>1. mpc[m] = "l15" /\ l1' = l1 /\ l15' = Bump(l15, m)
      BY <2>7 DEF L15Done
    <3>2. l15'[m] > 0 /\ \A d \in Devices \ {m} : l15'[d] = l15[d]
      BY <3>1, BumpFacts DEF TypeOK
    <3>3. CASE N > 1 /\ CanResetAdapter
      <4>1. RecoverAdapter(m, live)
        BY <2>7, <3>3 DEF L15Done
      <4>2. l1[m] > L1Before
        BY <3>1, <3>3 DEF LadderClimbed
      <4> QED
        BY <3>1, <3>2, <4>1, <4>2, RecoverAdapterLadder
    <3>4. CASE ~CanResetAdapter
      BY <2>7, <3>1, <3>2, <3>4, OffTheLadder DEF L15Done, AfterRecovery, TypeOK
    <3>5. CASE ~(N > 1)
      BY <3>5 DEF LadderClimbed, N
    <3> QED
      BY <3>3, <3>4, <3>5
  <2>8. ASSUME NEW m \in Devices, GetAdapterLock(m) PROVE LadderClimbed'
    BY <2>8 DEF GetAdapterLock, BeginCycle, counters, LadderClimbed, N, TypeOK
  <2>9. ASSUME NEW m \in Devices,
               (\E d \in victims : CycleDrop(m, d)) \/ PowerOff(m) \/ PowerOn(m)
        PROVE  LadderClimbed'
    BY <2>9, OffTheLadder DEF CycleDrop, PowerOff, PowerOn, counters
  <2>10. ASSUME NEW m \in Devices, CycleDone(m) PROVE LadderClimbed'
    <3>1. \A d \in Devices \ {m} : l1'[d] = l1[d] /\ l15'[d] = l15[d]
      BY <2>10, ZeroFacts DEF CycleDone, ForgetFailures, counters, TypeOK
    <3>2. \A d \in Devices : mpc'[d] \in {"l15", "wait", "cycle"} => d # m /\ mpc'[d] = mpc[d]
      BY <2>10 DEF CycleDone, OpenGate, AfterRecovery
    <3> QED
      BY <3>1, <3>2, OffTheLadder
  <2>11. ASSUME NEW m \in Devices, Disable(m) PROVE LadderClimbed'
    <3>1. \A d \in Devices : mpc'[d] \in {"l15", "wait", "cycle"} => mpc'[d] = mpc[d]
      BY <2>11 DEF Disable, OpenGate, TypeOK
    <3> QED
      BY <2>11, <3>1, OffTheLadder DEF Disable, counters
  <2> QED
    BY <2>1, <2>2, <2>3, <2>4, <2>5, <2>6, <2>7, <2>8, <2>9, <2>10, <2>11
    DEF Next, RecoveryStep
<1>3. LadderClimbed => LadderNoSkip
  BY DEF LadderClimbed, LadderNoSkip, At
<1> QED
  BY <1>1, <1>2, <1>3, TypeCorrect, PTL DEF Spec
-----------------------------------------------------------------------------
(* LiveIsClean needs to know that a registered device is not in recovery,
   where counters grow: recovery starts only after the link is unregistered. *)
Recovering == {"l1", "l15", "wait", "cycle", "stuck", "rebuild"}
LiveNotRecovering == \A m \in live : mpc[m] \notin Recovering
LiveInv == LiveIsClean /\ LiveNotRecovering

(* A step that registers nobody, sends no registered device to recovery and
   leaves the records of the registered ones. *)
LEMMA LiveKept ==
  ASSUME LiveInv, live' \subseteq live,
         \A d \in live' : /\ l1'[d] = l1[d] /\ l15'[d] = l15[d]
                          /\ d \in backoff' => d \in backoff
                          /\ mpc'[d] \in Recovering => mpc'[d] = mpc[d]
  PROVE  LiveInv'
  BY DEF LiveInv, LiveIsClean, LiveNotRecovering

(* What the registry says of a device is from its current connection: whoever
   is listed as live has no failure count and no backoff record, whenever
   devices fail, recover or are disabled. *)
THEOREM LiveCorrect == Spec => []LiveIsClean
<1>1. Init => LiveInv
  BY DEF Init, LiveInv, LiveIsClean, LiveNotRecovering
<1>2. TypeOK /\ LiveInv /\ [Next]_vars => LiveInv'
  <2> SUFFICES ASSUME TypeOK, LiveInv, [Next]_vars PROVE LiveInv'
    OBVIOUS
  <2>1. CASE UNCHANGED vars
    BY <2>1, LiveKept DEF vars, counters
  <2>2. ASSUME NEW m \in Devices,
               PassGate(m) \/ GetSlot(m) \/ Attempt(m) \/ NotFound(m) \/ Settled(m)
               \/ LinkFails(m) \/ Started(m)
        PROVE  LiveInv'
    BY <2>2, LiveKept
    DEF PassGate, GetSlot, Attempt, TakeSlotOrQueue, NotFound, Unregister, Settled, LinkFails,
        Started, counters, TypeOK, Recovering
  <2>3. ASSUME NEW m \in Devices, Dropped(m) PROVE LiveInv'
    BY <2>3, LiveKept DEF Dropped, Unregister, counters, TypeOK
  <2>4. ASSUME NEW m \in Devices, NoteConnected(m) PROVE LiveInv'
    <3>1. l1' = Zero(l1, m) /\ l15' = Zero(l15, m) /\ backoff' = backoff \ {m}
      BY <2>4 DEF NoteConnected, ForgetFailures
    <3>2. /\ l1'[m] = 0 /\ l15'[m] = 0
          /\ \A d \in Devices \ {m} : l1'[d] = l1[d] /\ l15'[d] = l15[d]
      BY <3>1, ZeroFacts DEF TypeOK
    <3>3. mpc'[m] = "settle" /\ \A d \in Devices \ {m} : mpc'[d] = mpc[d]
      BY <2>4 DEF NoteConnected, TypeOK
    <3> QED
      BY <2>4, <3>1, <3>2, <3>3 DEF NoteConnected, LiveInv, LiveIsClean, LiveNotRecovering, Recovering, TypeOK
  <2>5. ASSUME NEW m \in Devices, RestartDevice(m) PROVE LiveInv'
    <3>1. m \notin live
      BY <2>5 DEF RestartDevice, LiveInv, LiveNotRecovering, Recovering
    <3>2. live' \subseteq live /\ \A d \in Devices \ {m} : mpc'[d] = mpc[d]
      BY <2>5 DEF RestartDevice, TypeOK
    <3>3. \A d \in Devices \ {m} : /\ l1'[d] = l1[d] /\ l15'[d] = l15[d]
                                   /\ d \in backoff' => d \in backoff
      BY <2>5, ZeroFacts DEF RestartDevice, ForgetFailures, counters, TypeOK
    <3>4. live' \subseteq live /\ \A d \in live' : d \in Devices \ {m}
      BY <3>1, <3>2 DEF TypeOK
    <3> QED
      BY <3>2, <3>3, <3>4, LiveKept
  <2>6. ASSUME NEW m \in Devices, L1Done(m) PROVE LiveInv'
    <3>1. live' = live \ {m} /\ l15' = l15 /\ backoff' = backoff
      BY <2>6 DEF L1Done, Unregister
    <3>2. \A d \in Devices \ {m} : l1'[d] = l1[d] /\ mpc'[d] = mpc[d]
      BY <2>6, BumpFacts DEF L1Done, RecoverAdapter, BeginCycle, TypeOK
    <3> QED
      BY <3>1, <3>2, LiveKept DEF TypeOK
  <2>7. ASSUME NEW m \in Devices, L15Done(m) PROVE LiveInv'
    <3>1. m \notin live /\ live' = live /\ l1' = l1
      BY <2>7 DEF L15Done, LiveInv, LiveNotRecovering, Recovering
    <3>2. \A d \in Devices \ {m} : l15'[d] = l15[d] /\ (d \in backoff' => d \in backoff)
      BY <2>7, BumpFacts DEF L15Done, TypeOK
    <3>3. \A d \in Devices \ {m} : mpc'[d] = mpc[d]
      BY <2>7 DEF L15Done, RecoverAdapter, BeginCycle, TypeOK
    <3> QED
      BY <3>1, <3>2, <3>3, LiveKept DEF TypeOK
  <2>8. ASSUME NEW m \in Devices, GetAdapterLock(m) PROVE LiveInv'
    BY <2>8 DEF GetAdapterLock, BeginCycle, counters, LiveInv, LiveIsClean,
                LiveNotRecovering, Recovering, TypeOK
  <2>9. ASSUME NEW m \in Devices,
               (\E d \in victims : CycleDrop(m, d)) \/ PowerOff(m) \/ PowerOn(m)
        PROVE  LiveInv'
    BY <2>9, LiveKept DEF CycleDrop, Unregister, PowerOff, PowerOn, counters
  <2>10. ASSUME NEW m \in Devices, CycleDone(m) PROVE LiveInv'
    <3>1. m \notin live /\ live' = live
      BY <2>10 DEF CycleDone, LiveInv, LiveNotRecovering, Recovering
    <3>2. \A d \in Devices \ {m} : /\ l1'[d] = l1[d] /\ l15'[d] = l15[d]
                                   /\ d \in backoff' => d \in backoff
      BY <2>10, ZeroFacts DEF CycleDone, ForgetFailures, counters, TypeOK
    <3>3. \A d \in Devices \ {m} : mpc'[d] \in Recovering => mpc'[d] = mpc[d]
      BY <2>10 DEF CycleDone, OpenGate, Recovering
    <3>4. live' \subseteq live /\ \A d \in live' : d \in Devices \ {m}
      BY <3>1, <3>2 DEF TypeOK
    <3> QED
      BY <3>2, <3>3, <3>4, LiveKept
  <2>11. ASSUME NEW m \in Devices, Disable(m) PROVE LiveInv'
    <3>1. \A d \in Devices : mpc'[d] \in Recovering => mpc'[d] = mpc[d]
      BY <2>11 DEF Disable, OpenGate, Recovering, TypeOK
    <3> QED
      BY <2>11, <3>1, LiveKept DEF Disable, counters, TypeOK
  <2> QED
    BY <2>1, <2>2, <2>3, <2>4, <2>5, <2>6, <2>7, <2>8, <2>9, <2>10, <2>11
    DEF Next, RecoveryStep
<1> QED
  BY <1>1, <1>2, TypeCorrect, PTL DEF Spec, LiveInv
(* The registry, which admits the power cycle, lists no device whose manager
   neither holds the link nor is closing it, as long as no device is disabled
   during its _disconnect(). *)
THEOREM LiveTrue ==
  ASSUME "disable_in_drop" \notin Env
  PROVE  Spec => []LiveIsTrue
<1> DEFINE Linked == {"settle", "online", "drop"}
<1>a. LiveIsTrue <=> live \subseteq {m \in Devices : mpc[m] \in Linked}
  BY DEF LiveIsTrue, Connected, At
<1>1. Init => LiveIsTrue
  BY DEF Init, LiveIsTrue
<1>2. TypeOK /\ LiveIsTrue /\ [Next]_vars => LiveIsTrue'
  <2> SUFFICES ASSUME TypeOK, live \subseteq {m \in Devices : mpc[m] \in Linked}, [Next]_vars
               PROVE  live' \subseteq {m \in Devices : mpc'[m] \in Linked}
    BY <1>a DEF LiveIsTrue, Connected, At
  <2>k. ASSUME live' \subseteq live,
               \A d \in live' : mpc[d] \in Linked => mpc'[d] \in Linked
        PROVE  live' \subseteq {m \in Devices : mpc'[m] \in Linked}
    BY <2>k
  <2>1. CASE UNCHANGED vars
    BY <2>1, <2>k DEF vars
  <2>2. ASSUME NEW m \in Devices,
               PassGate(m) \/ GetSlot(m) \/ Attempt(m) \/ NotFound(m) \/ Settled(m)
               \/ LinkFails(m) \/ Started(m)
        PROVE  live' \subseteq {d \in Devices : mpc'[d] \in Linked}
    BY <2>2, <2>k
    DEF PassGate, GetSlot, Attempt, TakeSlotOrQueue, NotFound, Unregister, Settled, LinkFails,
        Started, TypeOK
  <2>3. ASSUME NEW m \in Devices, Dropped(m)
        PROVE  live' \subseteq {d \in Devices : mpc'[d] \in Linked}
    BY <2>3, <2>k DEF Dropped, Unregister, TypeOK
  <2>4. ASSUME NEW m \in Devices, NoteConnected(m)
        PROVE  live' \subseteq {d \in Devices : mpc'[d] \in Linked}
    BY <2>4 DEF NoteConnected, TypeOK
  <2>5. ASSUME NEW m \in Devices,
               L1Done(m) \/ L15Done(m) \/ GetAdapterLock(m) \/ RestartDevice(m)
        PROVE  live' \subseteq {d \in Devices : mpc'[d] \in Linked}
    <3>1. live' \subseteq live /\ mpc[m] \notin Linked
      BY <2>5 DEF L1Done, Unregister, L15Done, GetAdapterLock, RestartDevice
    <3>2. \A d \in Devices \ {m} : mpc'[d] = mpc[d]
      BY <2>5 DEF L1Done, L15Done, GetAdapterLock, RecoverAdapter, BeginCycle, RestartDevice, TypeOK
    <3> QED
      BY <3>1, <3>2, <2>k DEF TypeOK
  <2>6. ASSUME NEW m \in Devices,
               (\E d \in victims : CycleDrop(m, d)) \/ PowerOff(m) \/ PowerOn(m)
        PROVE  live' \subseteq {d \in Devices : mpc'[d] \in Linked}
    BY <2>6, <2>k DEF CycleDrop, Unregister, PowerOff, PowerOn
  <2>7. ASSUME NEW m \in Devices, CycleDone(m)
        PROVE  live' \subseteq {d \in Devices : mpc'[d] \in Linked}
    BY <2>7, <2>k DEF CycleDone, OpenGate, TypeOK
  <2>8. ASSUME NEW m \in Devices, Disable(m)
        PROVE  live' \subseteq {d \in Devices : mpc'[d] \in Linked}
    BY <2>8, <2>k DEF Disable, OpenGate, TypeOK
  <2> QED
    BY <2>1, <2>2, <2>3, <2>4, <2>5, <2>6, <2>7, <2>8 DEF Next, RecoveryStep
<1> QED
  BY <1>1, <1>2, TypeCorrect, PTL DEF Spec

-----------------------------------------------------------------------------
(* How the set of slot holders, and so its size, changes with one manager. *)
LEMMA HoldersChange ==
  ASSUME TypeOK, TypeOK', NEW m \in Devices, SlotsConserved,
         \A d \in Devices \ {m} : mpc'[d] \in {"window", "settle"} <=> mpc[d] \in {"window", "settle"},
         \/ slots' = slots /\ (mpc'[m] \in {"window", "settle"} <=> mpc[m] \in {"window", "settle"})
         \/ /\ slots' = slots - 1
            /\ mpc[m] \notin {"window", "settle"}
            /\ mpc'[m] \in {"window", "settle"}
         \/ /\ slots' = slots + 1
            /\ mpc[m] \in {"window", "settle"}
            /\ mpc'[m] \notin {"window", "settle"}
  PROVE  SlotsConserved'
<1>1. IsFiniteSet(Holders) /\ IsFiniteSet(Holders') /\ IsFiniteSet(Devices)
  <2>1. Holders \subseteq Devices /\ Holders' \subseteq Devices
    BY DEF Holders, At
  <2> QED
    BY <2>1, AdapterAssumption, FS_Subset
<1>2. CASE slots' = slots /\ (mpc'[m] \in {"window", "settle"} <=> mpc[m] \in {"window", "settle"})
  <2>1. Holders' = Holders
    BY <1>2 DEF Holders, At
  <2> QED
    BY <1>2, <2>1 DEF SlotsConserved
<1>3. CASE /\ slots' = slots - 1
           /\ mpc[m] \notin {"window", "settle"}
           /\ mpc'[m] \in {"window", "settle"}
  <2>1. Holders' = Holders \cup {m} /\ m \notin Holders
    BY <1>3 DEF Holders, At
  <2>2. Cardinality(Holders') = Cardinality(Holders) + 1
    BY <1>1, <2>1, FS_AddElement
  <2> QED
    BY <1>1, <1>3, <2>2, FS_CardinalityType DEF SlotsConserved, TypeOK
<1>4. CASE /\ slots' = slots + 1
           /\ mpc[m] \in {"window", "settle"}
           /\ mpc'[m] \notin {"window", "settle"}
  <2>1. Holders' = Holders \ {m} /\ m \in Holders
    BY <1>4 DEF Holders, At
  <2>2. Cardinality(Holders') = Cardinality(Holders) - 1
    BY <1>1, <2>1, FS_RemoveElement
  <2>3. Cardinality(Holders) \in Nat /\ slots \in Nat /\ ConnectLimit \in Nat
    BY <1>1, FS_CardinalityType, AdapterAssumption DEF TypeOK
  <2>4. slots' + Cardinality(Holders') = slots + Cardinality(Holders)
    BY <1>4, <2>2, <2>3
  <2> QED
    BY <2>4 DEF SlotsConserved
<1> QED
  BY <1>2, <1>3, <1>4

(* No way through or out of the connect window, cancellation included, loses
   or duplicates a permit of connect_sem. *)
THEOREM SlotsCorrect == Spec => []SlotsConserved
<1>1. Init => SlotsConserved
  <2> SUFFICES ASSUME Init PROVE SlotsConserved
    OBVIOUS
  <2>1. Holders = {}
    BY DEF Init, Holders, At
  <2> QED
    BY <2>1, FS_EmptySet, AdapterAssumption DEF Init, SlotsConserved
<1>2. TypeOK /\ TypeOK' /\ SlotsConserved /\ [Next]_vars => SlotsConserved'
  <2> SUFFICES ASSUME TypeOK, TypeOK', SlotsConserved, [Next]_vars PROVE SlotsConserved'
    OBVIOUS
  <2>1. CASE UNCHANGED vars
    BY <2>1 DEF vars, SlotsConserved, Holders, At
  <2>2. ASSUME NEW m \in Devices, PassGate(m) \/ GetSlot(m) \/ Attempt(m)
        PROVE  SlotsConserved'
    BY <2>2, HoldersChange DEF PassGate, GetSlot, Attempt, TakeSlotOrQueue, TypeOK
  <2>3. ASSUME NEW m \in Devices, NoteConnected(m) \/ NotFound(m) \/ Settled(m) \/ LinkFails(m)
        PROVE  SlotsConserved'
    BY <2>3, HoldersChange
    DEF NoteConnected, NotFound, Settled, LinkFails, Release, Holders, At, TypeOK
  <2>4. ASSUME NEW m \in Devices, Dropped(m) \/ Started(m) \/ RestartDevice(m)
        PROVE  SlotsConserved'
    BY <2>4, HoldersChange DEF Dropped, Started, RestartDevice, TypeOK
  <2>5. ASSUME NEW m \in Devices, L1Done(m) \/ L15Done(m) \/ GetAdapterLock(m)
        PROVE  SlotsConserved'
    BY <2>5, HoldersChange
    DEF L1Done, L15Done, GetAdapterLock, RecoverAdapter, BeginCycle, AfterRecovery, TypeOK
  <2>6. ASSUME NEW m \in Devices,
               (\E d \in victims : CycleDrop(m, d)) \/ PowerOff(m) \/ PowerOn(m)
        PROVE  SlotsConserved'
    BY <2>6, HoldersChange DEF CycleDrop, PowerOff, PowerOn
  <2>7. ASSUME NEW m \in Devices, CycleDone(m) PROVE SlotsConserved'
    BY <2>7, HoldersChange DEF CycleDone, OpenGate, AfterRecovery, TypeOK
  <2>8. ASSUME NEW m \in Devices, Disable(m) PROVE SlotsConserved'
    BY <2>8, HoldersChange DEF Disable, OpenGate, Release, Holders, At, TypeOK
  <2> QED
    BY <2>1, <2>2, <2>3, <2>4, <2>5, <2>6, <2>7, <2>8 DEF Next, RecoveryStep
<1> QED
  BY <1>1, <1>2, TypeCorrect, PTL DEF Spec

-----------------------------------------------------------------------------
(* The power cycle for any number of devices: its steps are in order. *)
PhasesInOrder ==
    /\ powered <=> phase # "off"
    /\ gate => phase = "none"

LEMMA RecoverPhases ==
  ASSUME TypeOK, GateClosedOnlyInCycle, PhasesInOrder,
         NEW m \in Devices, NEW links, RecoverAdapter(m, links)
  PROVE  PhasesInOrder'
<1>1. CASE At("cycle") \cup At("wait") = {}
  <2>1. gate /\ phase = "none" /\ powered
    BY <1>1 DEF TypeOK, GateClosedOnlyInCycle, PhasesInOrder
  <2> QED
    BY <1>1, <2>1 DEF RecoverAdapter, BeginCycle, PhasesInOrder
<1>2. CASE At("cycle") \cup At("wait") # {}
  BY <1>2 DEF RecoverAdapter, cycleVars, PhasesInOrder
<1> QED
  BY <1>1, <1>2

(* However many devices share the adapter, it is on whenever the gate is open,
   as long as no device is disabled: only a cancelled power cycle opens the gate
   on an adapter that is off. *)
THEOREM GateOpensPowered ==
  ASSUME "disable" \notin Env
  PROVE  Spec => []OpenGateIsPowered
<1>1. Init => PhasesInOrder
  BY DEF Init, PhasesInOrder
<1>2. TypeOK /\ GateClosedOnlyInCycle /\ PhasesInOrder /\ [Next]_vars => PhasesInOrder'
  <2> SUFFICES ASSUME TypeOK, GateClosedOnlyInCycle, PhasesInOrder, [Next]_vars
               PROVE  PhasesInOrder'
    OBVIOUS
  <2>1. CASE UNCHANGED vars
    BY <2>1 DEF vars, cycleVars, PhasesInOrder
  <2>2. ASSUME NEW m \in Devices,
               \/ PassGate(m) \/ GetSlot(m) \/ Attempt(m) \/ NoteConnected(m)
               \/ NotFound(m) \/ Settled(m) \/ LinkFails(m) \/ Dropped(m)
               \/ RestartDevice(m) \/ Started(m)
        PROVE  PhasesInOrder'
    BY <2>2 DEF PassGate, GetSlot, Attempt, NoteConnected, NotFound, Settled, LinkFails,
                Dropped, RestartDevice, Started, cycleVars, PhasesInOrder
  <2>3. ASSUME NEW m \in Devices, L1Done(m) \/ L15Done(m) PROVE PhasesInOrder'
    BY <2>3, RecoverPhases DEF L1Done, L15Done, cycleVars, PhasesInOrder
  <2>4. ASSUME NEW m \in Devices, GetAdapterLock(m) PROVE PhasesInOrder'
    <3>1. gate /\ phase = "none" /\ powered
      BY <2>4 DEF GetAdapterLock, TypeOK, GateClosedOnlyInCycle, PhasesInOrder
    <3> QED
      BY <2>4, <3>1 DEF GetAdapterLock, BeginCycle, PhasesInOrder
  <2>5. ASSUME NEW m \in Devices,
               (\E d \in victims : CycleDrop(m, d)) \/ PowerOff(m) \/ PowerOn(m)
        PROVE  PhasesInOrder'
    <3>1. ~gate
      BY <2>5 DEF CycleDrop, PowerOff, PowerOn, GateClosedOnlyInCycle, At
    <3> QED
      BY <2>5, <3>1 DEF CycleDrop, PowerOff, PowerOn, PhasesInOrder
  <2>6. ASSUME NEW m \in Devices, CycleDone(m) PROVE PhasesInOrder'
    BY <2>6 DEF CycleDone, OpenGate, PhasesInOrder
  <2> QED
    BY <2>1, <2>2, <2>3, <2>4, <2>5, <2>6 DEF Next, RecoveryStep, Disable
<1>3. PhasesInOrder => OpenGateIsPowered
  BY DEF PhasesInOrder, OpenGateIsPowered
<1> QED
  BY <1>1, <1>2, <1>3, TypeCorrect, GateCorrect, PTL DEF Spec

-----------------------------------------------------------------------------
(* With a slot for each device nobody queues for one, ... *)
LEMMA SlotIsFree ==
  ASSUME N <= ConnectLimit, TypeOK, SlotsConserved, NEW m \in Devices, m \notin Holders
  PROVE  slots > 0
<1>1. Holders \subseteq Devices \ {m}
  BY DEF Holders, At
<1>2. /\ IsFiniteSet(Devices \ {m})
      /\ Cardinality(Devices \ {m}) = Cardinality(Devices) - 1
  BY AdapterAssumption, FS_RemoveElement
<1>3. Cardinality(Holders) <= Cardinality(Devices \ {m}) /\ IsFiniteSet(Holders)
  BY <1>1, <1>2, FS_Subset
<1>4. Cardinality(Holders) \in Nat /\ N \in Nat /\ ConnectLimit \in Nat /\ slots \in Nat
  BY <1>3, NType, FS_CardinalityType, AdapterAssumption DEF TypeOK
<1>5. Cardinality(Holders) <= N - 1
  BY <1>2, <1>3 DEF N
<1> QED
  BY <1>4, <1>5 DEF SlotsConserved

(* ... and whoever has been let through the gate goes on while it is open. *)
NobodyBetween == At("queue") = {} /\ (~gate => At("pass") = {})

(* "Every attempt goes through this gate first; during L2 it holds back all
   managers" is true, of any way a device may be disabled, while there are no
   more devices than connect slots. *)
THEOREM GateHoldsBack ==
  ASSUME N <= ConnectLimit
  PROVE  Spec => NoEntryWhileClosed
<1>1. Init => NobodyBetween
  BY DEF Init, NobodyBetween, At
<1>2. ASSUME TypeOK, SlotsConserved, NobodyBetween, [Next]_vars
      PROVE  /\ NobodyBetween'
             /\ \A m \in Devices : mpc[m] # "window" /\ mpc'[m] = "window" => gate
  <2> DEFINE Kept == \A d \in Devices :
                         /\ mpc'[d] = "queue" => mpc[d] = "queue"
                         /\ mpc'[d] = "pass" => mpc[d] = "pass"
                         /\ mpc'[d] = "window" => mpc[d] = "window"
  <2>a. ASSUME Kept, gate' = gate PROVE NobodyBetween'
    BY <1>2, <2>a DEF NobodyBetween, At
  <2>b. ASSUME Kept, At("pass") = {} PROVE NobodyBetween'
    BY <1>2, <2>b DEF NobodyBetween, At
  <2>1. CASE UNCHANGED vars
    BY <1>2, <2>1 DEF vars, NobodyBetween, At
  <2>2. ASSUME NEW m \in Devices, PassGate(m) \/ Attempt(m)
        PROVE  /\ NobodyBetween'
               /\ \A d \in Devices : mpc[d] # "window" /\ mpc'[d] = "window" => gate
    <3>1. slots > 0 /\ At("queue") = {}
      BY <1>2, <2>2, SlotIsFree DEF PassGate, Attempt, NobodyBetween, Holders, At
    <3>2. gate' = gate /\ \A d \in Devices \ {m} : mpc'[d] = mpc[d]
      BY <1>2, <2>2 DEF PassGate, Attempt, TakeSlotOrQueue, TypeOK
    <3>3. /\ mpc'[m] \in {"window", "gate"}
          /\ mpc'[m] = "window" => gate
      BY <1>2, <2>2, <3>1 DEF PassGate, Attempt, TakeSlotOrQueue, GateOpen, NobodyBetween,
                              At, TypeOK
    <3> QED
      BY <1>2, <3>2, <3>3 DEF NobodyBetween, At
  <2>3. ASSUME NEW m \in Devices, GetSlot(m) PROVE FALSE
    BY <1>2, <2>3 DEF GetSlot, NobodyBetween, At
  <2>4. ASSUME NEW m \in Devices,
               \/ NoteConnected(m) \/ NotFound(m) \/ Settled(m) \/ LinkFails(m)
               \/ Dropped(m) \/ Started(m) \/ RestartDevice(m)
        PROVE  Kept /\ gate' = gate
    BY <1>2, <2>4 DEF NoteConnected, NotFound, Settled, LinkFails, Dropped, Started,
                      RestartDevice, TypeOK
  <2>5. ASSUME NEW m \in Devices, L1Done(m) \/ L15Done(m) PROVE Kept /\ At("pass") = {}
    BY <1>2, <2>5 DEF L1Done, L15Done, RecoverAdapter, BeginCycle, AfterRecovery, TypeOK,
                      Calm, HandOverDue
  <2>6. ASSUME NEW m \in Devices, GetAdapterLock(m) PROVE Kept /\ At("pass") = {}
    BY <1>2, <2>6 DEF GetAdapterLock, BeginCycle, TypeOK
  <2>7. ASSUME NEW m \in Devices,
               (\E d \in victims : CycleDrop(m, d)) \/ PowerOff(m) \/ PowerOn(m)
        PROVE  Kept /\ gate' = gate
    BY <2>7 DEF CycleDrop, PowerOff, PowerOn
  <2>8. ASSUME NEW m \in Devices, NEW next, next \in {"rest", "stuck", "off"}, OpenGate(m, next)
        PROVE  /\ NobodyBetween'
               /\ \A d \in Devices : mpc'[d] = "window" => mpc[d] = "window"
    BY <1>2, <2>8 DEF OpenGate, NobodyBetween, At
  <2>9. ASSUME NEW m \in Devices, CycleDone(m)
        PROVE  /\ NobodyBetween'
               /\ \A d \in Devices : mpc'[d] = "window" => mpc[d] = "window"
    BY <2>8, <2>9 DEF CycleDone, AfterRecovery
  <2>10. ASSUME NEW m \in Devices, Disable(m)
         PROVE  /\ NobodyBetween'
                /\ \A d \in Devices : mpc'[d] = "window" => mpc[d] = "window"
    <3>1. OpenGate(m, "off") \/ (Kept /\ gate' = gate)
      BY <1>2, <2>10 DEF Disable, TypeOK
    <3> QED
      BY <2>8, <2>a, <3>1
  <2> QED
    BY <1>2, <2>a, <2>b, <2>1, <2>2, <2>3, <2>4, <2>5, <2>6, <2>7, <2>9, <2>10
    DEF Next, RecoveryStep, vars
<1>3. TypeOK /\ SlotsConserved /\ NobodyBetween /\ [Next]_vars => NobodyBetween'
  BY <1>2
<1>4. TypeOK /\ SlotsConserved /\ NobodyBetween /\ [Next]_vars =>
          [\A m \in Devices : mpc[m] # "window" /\ mpc'[m] = "window" => gate]_vars
  BY <1>2
<1> QED
  BY <1>1, <1>3, <1>4, TypeCorrect, SlotsCorrect, PTL DEF Spec, NoEntryWhileClosed

-----------------------------------------------------------------------------
(* The power cycle with two devices, none of which is disabled. *)

LEMMA TwoDevices ==
  ASSUME N <= 2, NEW m \in Devices, NEW d \in Devices, m # d, NEW e \in Devices
  PROVE  e = m \/ e = d
<1> SUFFICES ASSUME e # m, e # d PROVE FALSE
  OBVIOUS
<1>1. IsFiniteSet({m}) /\ Cardinality({m}) = 1
  BY FS_Singleton
<1>2. IsFiniteSet({m} \cup {d}) /\ Cardinality({m} \cup {d}) = 2
  BY <1>1, FS_AddElement
<1>3. Cardinality(({m} \cup {d}) \cup {e}) = 3
  BY <1>2, FS_AddElement
<1>4. Cardinality(({m} \cup {d}) \cup {e}) <= Cardinality(Devices)
  BY AdapterAssumption, FS_Subset
<1> QED
  BY <1>3, <1>4, NType DEF N

(* The steps of the cycle are in order, and it has no link to disconnect. *)
CycleOrder == PhasesInOrder /\ victims = {}

(* Whoever waits for the adapter does so because the other one has it, or has
   just left it; and whoever has it knows that the other one has not passed the
   gate. *)
Turns ==
    \A m, d \in Devices : m # d =>
        /\ mpc[m] = "wait" => mpc[d] \in {"cycle", "rest", "stuck"}
        /\ mpc[m] = "cycle" => mpc[d] \notin {"pass", "queue"}

(* The registry misses no link. *)
LinksAreListed == Connected \subseteq live

CycleInv == CycleOrder /\ Turns /\ LinksAreListed
Base == TypeOK /\ GateClosedOnlyInCycle /\ SlotsConserved /\ LiveIsTrue

(* Nobody is in the cycle and nothing is due while others wait for it. *)
LEMMA WaitIsAwaited ==
  ASSUME N <= 2, Turns, Calm, NEW m \in Devices, NEW d \in Devices, m # d,
         mpc[d] = "wait"
  PROVE  mpc[m] = "cycle"
<1>1. d \in At("wait")
  BY DEF At
<1>2. At("cycle") # {}
  BY <1>1 DEF Calm, HandOverDue
<1>3. PICK e \in Devices : mpc[e] = "cycle"
  BY <1>2 DEF At
<1> QED
  BY <1>3, TwoDevices

(* With the semaphore free nobody is left in its queue. *)
LEMMA QueueIsEmpty ==
  ASSUME Base, N <= 2, Calm, NEW m \in Devices, NEW d \in Devices, m # d,
         mpc[m] = "l15" \/ mpc[m] = "l1"
  PROVE  mpc[d] \notin {"pass", "queue"}
<1>1. At("pass") = {} /\ (slots > 0 => At("queue") = {})
  BY DEF Calm, HandOverDue
<1>2. mpc[d] # "pass"
  BY <1>1 DEF At
<1>3. ASSUME mpc[d] = "queue" PROVE FALSE
  <2>1. \A e \in Devices : mpc[e] \notin {"window", "settle"}
    BY <1>3, TwoDevices
  <2>2. Holders = {}
    BY <2>1 DEF Holders, At
  <2>3. slots = ConnectLimit
    BY <2>2, FS_EmptySet DEF Base, SlotsConserved, TypeOK
  <2>4. slots > 0
    BY <2>3, AdapterAssumption
  <2> QED
    BY <1>1, <1>3, <2>4 DEF At
<1> QED
  BY <1>2, <1>3

(* One device moves and brings itself neither to the adapter nor, while
   somebody waits, away from it. *)
LEMMA MoveTurns ==
  ASSUME TypeOK, Turns, NEW m \in Devices, NEW p \in Places \ {"wait", "cycle"},
         mpc' = [mpc EXCEPT ![m] = p],
         \A d \in Devices \ {m} : mpc[d] = "wait" => p \in {"rest", "stuck"},
         \A d \in Devices \ {m} : mpc[d] = "cycle" => p \notin {"pass", "queue"}
  PROVE  Turns'
  BY DEF Turns, TypeOK

(* Recovery asks for the adapter, whether or not it is free. *)
LEMMA RecoverTurns ==
  ASSUME Base, CycleInv, N <= 2, Calm, NEW m \in Devices,
         mpc[m] = "l15" \/ mpc[m] = "l1", NEW links, RecoverAdapter(m, links)
  PROVE  Turns'
<1>1. CASE At("cycle") \cup At("wait") = {}
  <2>1. mpc' = [mpc EXCEPT ![m] = "cycle"]
    BY <1>1 DEF RecoverAdapter, BeginCycle
  <2>2. \A d \in Devices : mpc[d] \notin {"cycle", "wait"}
    BY <1>1 DEF At
  <2>3. \A d \in Devices : d # m => mpc[d] \notin {"pass", "queue"}
    BY QueueIsEmpty
  <2> QED
    BY <2>1, <2>2, <2>3 DEF Turns, Base, TypeOK
<1>2. CASE At("cycle") \cup At("wait") # {}
  <2>1. mpc' = [mpc EXCEPT ![m] = "wait"]
    BY <1>2 DEF RecoverAdapter
  <2>2. PICK d \in Devices : mpc[d] \in {"cycle", "wait"}
    BY <1>2 DEF At
  <2>3. d # m /\ mpc[d] = "cycle"
    BY <2>2 DEF CycleInv, Turns
  <2>4. \A e \in Devices : e = m \/ e = d
    BY <2>3, TwoDevices
  <2> QED
    BY <2>1, <2>3, <2>4 DEF Turns, Base, TypeOK
<1> QED
  BY <1>1, <1>2

LEMMA RecoverOrder ==
  ASSUME Base, CycleInv, NEW m \in Devices, RecoverAdapter(m, {})
  PROVE  CycleOrder'
<1>1. PhasesInOrder'
  BY RecoverPhases DEF Base, CycleInv, CycleOrder
<1>2. victims' = {}
  BY DEF RecoverAdapter, BeginCycle, cycleVars, CycleInv, CycleOrder
<1> QED
  BY <1>1, <1>2 DEF CycleOrder

(* The one who has waited finds nobody connected. *)
LEMMA LockFindsNobody ==
  ASSUME Base, CycleInv, N <= 2, NEW m \in Devices, GetAdapterLock(m)
  PROVE  live = {} /\ Connected = {} /\ \A d \in Devices \ {m} : mpc[d] \in {"rest", "stuck"}
<1>1. mpc[m] = "wait" /\ At("cycle") = {}
  BY DEF GetAdapterLock
<1>2. \A d \in Devices \ {m} : mpc[d] \in {"rest", "stuck"}
  BY <1>1 DEF CycleInv, Turns, At
<1>3. Connected = {} /\ At("drop") = {}
  BY <1>1, <1>2 DEF Connected, At
<1> QED
  BY <1>2, <1>3 DEF Base, LiveIsTrue

(* A step of one device, taken when nothing is due, to another place than the
   queue for the adapter. *)
LEMMA CalmTurns ==
  ASSUME TypeOK, Turns, N <= 2, Calm, NEW m \in Devices, mpc[m] # "cycle",
         NEW p \in Places \ {"wait", "cycle"},
         p \in {"pass", "queue"} => At("cycle") = {},
         mpc' = [mpc EXCEPT ![m] = p]
  PROVE  Turns'
<1>1. \A d \in Devices \ {m} : mpc[d] # "wait"
  BY WaitIsAwaited
<1>2. \A d \in Devices \ {m} : mpc[d] = "cycle" => p \notin {"pass", "queue"}
  BY DEF At
<1> QED
  BY <1>1, <1>2, MoveTurns

LEMMA MoveLinks ==
  ASSUME LinksAreListed, NEW m \in Devices, live \ {m} \subseteq live',
         \A d \in Devices \ {m} :
             mpc'[d] \in {"settle", "online"} => mpc[d] \in {"settle", "online"},
         mpc'[m] \in {"settle", "online"} => m \in live'
  PROVE  LinksAreListed'
  BY DEF LinksAreListed, Connected, At

LEMMA OneDevice ==
  ASSUME N <= 1, NEW m \in Devices, NEW d \in Devices
  PROVE  d = m
<1> SUFFICES ASSUME d # m PROVE FALSE
  OBVIOUS
<1>1. IsFiniteSet({m}) /\ Cardinality({m}) = 1
  BY FS_Singleton
<1>2. Cardinality({m} \cup {d}) = 2
  BY <1>1, FS_AddElement
<1>3. Cardinality({m} \cup {d}) <= Cardinality(Devices)
  BY AdapterAssumption, FS_Subset
<1> QED
  BY <1>2, <1>3, NType DEF N

(* Recovery that may power-cycle the adapter finds no link registered. *)
LEMMA NoLinkAtReset ==
  ASSUME Base, NEW m \in Devices, mpc[m] \in {"l1", "l15"}, CanResetAdapter
  PROVE  live = {}
<1>1. CASE N <= 1
  <2>1. Connected = {} /\ At("drop") = {}
    BY <1>1, OneDevice DEF Connected, At
  <2> QED
    BY <2>1 DEF Base, LiveIsTrue
<1> QED
  BY <1>1 DEF CanResetAdapter

(* Every step keeps the order of the cycle, the turns and the registry. *)
LEMMA CycleStep ==
  ASSUME N <= 2, Env = {}, Base, CycleInv, [Next]_vars
  PROVE  CycleInv'
<1> USE DEF Base, CycleInv
<1>1. CASE UNCHANGED vars
  BY <1>1 DEF vars, cycleVars, CycleOrder, PhasesInOrder, Turns, LinksAreListed, Connected, At
<1>2. ASSUME NEW m \in Devices, PassGate(m) \/ GetSlot(m) PROVE CycleInv'
  <2>1. PICK p \in {"window", "queue"} : mpc' = [mpc EXCEPT ![m] = p]
    BY <1>2 DEF PassGate, GetSlot, TakeSlotOrQueue
  <2>2. mpc[m] \in {"pass", "queue"}
    BY <1>2 DEF PassGate, GetSlot
  <2>3. \A d \in Devices \ {m} : mpc[d] \notin {"wait", "cycle"}
    BY <2>2 DEF Turns
  <2>4. Turns'
    <3>1. \A d \in Devices : mpc'[d] \notin {"wait", "cycle"}
      BY <2>1, <2>3 DEF TypeOK
    <3> QED
      BY <3>1 DEF Turns
  <2>5. live' = live /\ CycleOrder'
    BY <1>2 DEF PassGate, GetSlot, cycleVars, CycleOrder, PhasesInOrder
  <2>6. LinksAreListed'
    BY <2>1, <2>5, MoveLinks DEF TypeOK
  <2> QED
    BY <2>4, <2>5, <2>6
<1>3. ASSUME NEW m \in Devices, Attempt(m) PROVE CycleInv'
  <2>1. Calm /\ mpc[m] = "rest"
    BY <1>3 DEF Attempt
  <2>2. PICK p \in {"window", "queue", "gate"} :
            mpc' = [mpc EXCEPT ![m] = p] /\ (p = "queue" => gate)
    BY <1>3 DEF Attempt, TakeSlotOrQueue, GateOpen
  <2>3. p = "queue" => At("cycle") = {}
    BY <2>2 DEF GateClosedOnlyInCycle
  <2>4. Turns'
    BY <2>1, <2>2, <2>3, CalmTurns DEF Places
  <2>5. live' = live /\ CycleOrder'
    BY <1>3 DEF Attempt, cycleVars, CycleOrder, PhasesInOrder
  <2>6. LinksAreListed'
    BY <2>2, <2>5, MoveLinks DEF TypeOK
  <2> QED
    BY <2>4, <2>5, <2>6
<1>4. ASSUME NEW m \in Devices, NoteConnected(m) PROVE CycleInv'
  <2>1. Calm /\ mpc[m] = "window" /\ mpc' = [mpc EXCEPT ![m] = "settle"]
        /\ live' = live \cup {m}
    BY <1>4 DEF NoteConnected
  <2>2. Turns'
    BY <2>1, CalmTurns DEF Places
  <2>3. CycleOrder'
    BY <1>4 DEF NoteConnected, cycleVars, CycleOrder, PhasesInOrder
  <2>4. LinksAreListed'
    BY <2>1, MoveLinks DEF TypeOK
  <2> QED
    BY <2>2, <2>3, <2>4
<1>5. ASSUME NEW m \in Devices,
             NotFound(m) \/ LinkFails(m) \/ Dropped(m) \/ Started(m)
      PROVE  CycleInv'
  <2>1. Calm /\ mpc[m] \in {"window", "settle", "online", "drop", "rebuild", "off"}
    BY <1>5 DEF NotFound, LinkFails, Dropped, Started
  <2>2. PICK p \in {"rest", "drop", "l1", "off"} : mpc' = [mpc EXCEPT ![m] = p]
    BY <1>5 DEF NotFound, LinkFails, Dropped, Started
  <2>3. Turns'
    BY <2>1, <2>2, CalmTurns DEF Places
  <2>4. live \ {m} \subseteq live' /\ CycleOrder'
    BY <1>5 DEF NotFound, LinkFails, Dropped, Started, Unregister, cycleVars, CycleOrder,
                PhasesInOrder
  <2>5. LinksAreListed'
    BY <2>2, <2>4, MoveLinks DEF TypeOK
  <2> QED
    BY <2>3, <2>4, <2>5
<1>6. ASSUME NEW m \in Devices, Settled(m) PROVE CycleInv'
  <2>1. Calm /\ mpc[m] = "settle" /\ mpc' = [mpc EXCEPT ![m] = "online"] /\ live' = live
    BY <1>6 DEF Settled
  <2>2. Turns'
    BY <2>1, CalmTurns DEF Places
  <2>3. CycleOrder'
    BY <1>6 DEF Settled, cycleVars, CycleOrder, PhasesInOrder
  <2>4. m \in live
    BY <2>1 DEF LinksAreListed, Connected, At
  <2>5. LinksAreListed'
    BY <2>1, <2>4, MoveLinks DEF TypeOK
  <2> QED
    BY <2>2, <2>3, <2>5
<1>7. ASSUME NEW m \in Devices, L1Done(m) \/ L15Done(m) PROVE CycleInv'
  <2>1. Calm /\ mpc[m] \in {"l1", "l15"}
    BY <1>7 DEF L1Done, L15Done
  <2>2. live \ {m} \subseteq live'
    BY <1>7 DEF L1Done, L15Done, Unregister
  <2>3. CASE RecoverAdapter(m, {})
    <3>1. Turns' /\ CycleOrder'
      BY <2>1, <2>3, RecoverTurns, RecoverOrder
    <3>2. \E p \in {"cycle", "wait"} : mpc' = [mpc EXCEPT ![m] = p]
      BY <2>3 DEF RecoverAdapter, BeginCycle
    <3>3. LinksAreListed'
      BY <2>2, <3>2, MoveLinks DEF TypeOK
    <3> QED
      BY <3>1, <3>3
  <2>4. CASE /\ \E p \in {"l15", "rest", "stuck"} : mpc' = [mpc EXCEPT ![m] = p]
             /\ UNCHANGED <<gate, cycleVars>>
    <3>1. PICK p \in {"l15", "rest", "stuck"} : mpc' = [mpc EXCEPT ![m] = p]
      BY <2>4
    <3>2. Turns'
      BY <2>1, <3>1, CalmTurns DEF Places
    <3>3. CycleOrder'
      BY <2>4 DEF cycleVars, CycleOrder, PhasesInOrder
    <3>4. LinksAreListed'
      BY <2>2, <3>1, MoveLinks DEF TypeOK
    <3> QED
      BY <3>2, <3>3, <3>4
  <2>5. CASE L1Done(m)
    <3>1. N <= 1 => live \ {m} = {}
      BY OneDevice DEF TypeOK
    <3> QED
      BY <2>3, <2>4, <2>5, <3>1 DEF L1Done, AfterRecovery
  <2>6. CASE L15Done(m)
    <3>1. CanResetAdapter => live = {}
      BY <2>1, NoLinkAtReset
    <3> QED
      BY <2>3, <2>4, <2>6, <3>1 DEF L15Done, AfterRecovery
  <2> QED
    BY <1>7, <2>5, <2>6
<1>8. ASSUME NEW m \in Devices, GetAdapterLock(m) PROVE CycleInv'
  <2>1. live = {} /\ \A d \in Devices \ {m} : mpc[d] \in {"rest", "stuck"}
    BY <1>8, LockFindsNobody
  <2>2. /\ mpc' = [mpc EXCEPT ![m] = "cycle"]
        /\ gate' = FALSE /\ phase' = "drop" /\ victims' = live /\ powered' = powered
        /\ live' = live /\ At("cycle") = {}
    BY <1>8 DEF GetAdapterLock, BeginCycle
  <2>3. Turns'
    BY <2>1, <2>2 DEF Turns, TypeOK
  <2>4. powered
    BY <2>2 DEF GateClosedOnlyInCycle, CycleOrder, PhasesInOrder, TypeOK
  <2>5. CycleOrder'
    BY <2>1, <2>2, <2>4 DEF CycleOrder, PhasesInOrder
  <2>6. LinksAreListed'
    BY <2>2, MoveLinks DEF TypeOK
  <2> QED
    BY <2>3, <2>5, <2>6
<1>9. ASSUME NEW m \in Devices,
             (\E d \in victims : CycleDrop(m, d)) \/ PowerOff(m) \/ PowerOn(m)
      PROVE  CycleInv'
  <2>1. PowerOff(m) \/ PowerOn(m)
    BY <1>9 DEF CycleOrder, PhasesInOrder
  <2>2. ~gate /\ mpc' = mpc /\ live' = live /\ gate' = gate /\ victims' = victims
    BY <2>1 DEF PowerOff, PowerOn, GateClosedOnlyInCycle, At
  <2>3. CycleOrder'
    BY <2>1, <2>2 DEF PowerOff, PowerOn, CycleOrder, PhasesInOrder
  <2>4. Turns' /\ LinksAreListed'
    BY <2>2 DEF Turns, LinksAreListed, Connected, At
  <2> QED
    BY <2>3, <2>4
<1>10. ASSUME NEW m \in Devices, CycleDone(m) PROVE CycleInv'
  <2>1. mpc[m] = "cycle" /\ phase = "on" /\ OpenGate(m, AfterRecovery(m))
        /\ live' = live /\ powered' = powered
    BY <1>10 DEF CycleDone
  <2>2. CycleOrder'
    BY <2>1 DEF OpenGate, CycleOrder, PhasesInOrder
  <2>3. mpc'[m] \in {"rest", "stuck"}
    BY <2>1 DEF OpenGate, AfterRecovery
  <2>4. \A d \in Devices \ {m} :
            mpc'[d] # "cycle" /\ (mpc'[d] = mpc[d] \/ mpc'[d] = "pass")
    BY <2>1 DEF OpenGate, GateClosedOnlyInCycle, At
  <2>5. \A e \in Devices \ {m}, d \in Devices \ {m} : e = d
    BY TwoDevices
  <2>6. Turns'
    BY <2>3, <2>4, <2>5 DEF Turns
  <2>7. LinksAreListed'
    BY <2>1, <2>3, <2>4, MoveLinks
  <2> QED
    BY <2>2, <2>6, <2>7
<1>11. ASSUME NEW m \in Devices, RestartDevice(m) PROVE CycleInv'
  <2>1. Calm /\ mpc[m] = "stuck"
    BY <1>11 DEF RestartDevice
  <2>2. PICK p \in {"rest", "rebuild"} : mpc' = [mpc EXCEPT ![m] = p]
    BY <1>11 DEF RestartDevice
  <2>3. Turns'
    BY <2>1, <2>2, CalmTurns DEF Places
  <2>4. CycleOrder'
    BY <1>11 DEF RestartDevice, cycleVars, CycleOrder, PhasesInOrder
  <2>5. live \ {m} \subseteq live'
    <3>1. N <= 1 => live \ {m} = {}
      BY OneDevice DEF TypeOK
    <3> QED
      BY <1>11, <3>1 DEF RestartDevice
  <2>6. LinksAreListed'
    BY <2>2, <2>5, MoveLinks DEF TypeOK
  <2> QED
    BY <2>3, <2>4, <2>6
<1> QED
  BY <1>1, <1>2, <1>3, <1>4, <1>5, <1>6, <1>7, <1>8, <1>9, <1>10, <1>11
  DEF Next, RecoveryStep, Disable

(* Entering the window finds the gate open, closing the gate finds nobody
   connected. *)
LEMMA CycleActions ==
  ASSUME N <= 2, Env = {}, Base, CycleInv, Next
  PROVE  /\ \A m \in Devices : mpc[m] # "window" /\ mpc'[m] = "window" => gate
         /\ gate /\ ~gate' => Connected = {}
<1> USE DEF Base, CycleInv
<1>1. ASSUME NEW m \in Devices, PassGate(m) \/ GetSlot(m) \/ Attempt(m)
      PROVE  gate' = gate /\ \A d \in Devices : mpc[d] # "window" /\ mpc'[d] = "window" => gate
  <2>1. mpc[m] \in {"pass", "queue"} => gate
    <3> SUFFICES ASSUME mpc[m] \in {"pass", "queue"}, ~gate PROVE FALSE
      BY DEF TypeOK
    <3>1. PICK d \in Devices : mpc[d] = "cycle"
      BY DEF GateClosedOnlyInCycle, At
    <3> QED
      BY <3>1 DEF Turns
  <2>2. gate' = gate /\ \A d \in Devices \ {m} : mpc'[d] = mpc[d]
    BY <1>1 DEF PassGate, GetSlot, Attempt, TakeSlotOrQueue, TypeOK
  <2>3. mpc'[m] = "window" => gate
    BY <1>1, <2>1 DEF PassGate, GetSlot, Attempt, GateOpen, TypeOK
  <2> QED
    BY <2>2, <2>3
<1>2. ASSUME NEW m \in Devices,
             \/ NoteConnected(m) \/ NotFound(m) \/ Settled(m) \/ LinkFails(m)
             \/ Dropped(m) \/ Started(m) \/ RestartDevice(m)
      PROVE  gate' = gate /\ \A d \in Devices : mpc'[d] = "window" => mpc[d] = "window"
  BY <1>2 DEF NoteConnected, NotFound, Settled, LinkFails, Dropped, Started, RestartDevice, TypeOK
<1>3. ASSUME NEW m \in Devices, L1Done(m) \/ L15Done(m)
      PROVE  /\ gate /\ ~gate' => Connected = {}
             /\ \A d \in Devices : mpc'[d] = "window" => mpc[d] = "window"
  <2>1. \A d \in Devices : mpc'[d] = "window" => mpc[d] = "window"
    BY <1>3 DEF L1Done, L15Done, RecoverAdapter, BeginCycle, AfterRecovery, TypeOK
  <2>2. mpc[m] \in {"l1", "l15"}
    BY <1>3 DEF L1Done, L15Done
  <2>3. ASSUME CanResetAdapter PROVE Connected = {}
    BY <2>2, <2>3, NoLinkAtReset DEF LinksAreListed
  <2>4. ~CanResetAdapter => gate' = gate
    BY <1>3 DEF L1Done, L15Done, CanResetAdapter
  <2> QED
    BY <2>1, <2>3, <2>4
<1>4. ASSUME NEW m \in Devices, GetAdapterLock(m)
      PROVE  /\ Connected = {}
             /\ \A d \in Devices : mpc'[d] = "window" => mpc[d] = "window"
  BY <1>4, LockFindsNobody DEF GetAdapterLock, BeginCycle, TypeOK
<1>5. ASSUME NEW m \in Devices, (\E d \in victims : CycleDrop(m, d)) \/ PowerOff(m) \/ PowerOn(m)
      PROVE  gate' = gate /\ mpc' = mpc
  BY <1>5 DEF CycleDrop, PowerOff, PowerOn
<1>6. ASSUME NEW m \in Devices, CycleDone(m)
      PROVE  gate' /\ \A d \in Devices : mpc'[d] = "window" => mpc[d] = "window"
  BY <1>6 DEF CycleDone, OpenGate, AfterRecovery
<1> QED
  BY <1>1, <1>2, <1>3, <1>4, <1>5, <1>6 DEF Next, RecoveryStep, Disable

(* The power cycle is safe while nobody is disabled: nobody enters the connect
   window with the gate closed, the cycle begins with nobody connected, and the
   gate opens on a powered adapter.  With three devices the first two can fail:
   a device that queued for a slot before the gate closed may get it after. *)
THEOREM TwoDevicesAreSafe ==
  ASSUME N <= 2, Env = {}
  PROVE  Spec => CycleIsSafe
<1>1. Init => CycleInv
  BY DEF Init, CycleInv, CycleOrder, PhasesInOrder, Turns, LinksAreListed, Connected, At
<1>2. Base /\ CycleInv /\ [Next]_vars => CycleInv'
  BY CycleStep
<1>3. Spec => []OpenGateIsPowered
  BY GateOpensPowered
<1>4. Base /\ CycleInv /\ [Next]_vars =>
          [\A m \in Devices : mpc[m] # "window" /\ mpc'[m] = "window" => gate]_vars
  BY CycleActions
<1>5. Base /\ CycleInv /\ [Next]_vars => [gate /\ ~gate' /\ N > 1 => Connected = {}]_vars
  BY CycleActions
<1>6. TypeOK /\ GateClosedOnlyInCycle /\ SlotsConserved /\ LiveIsTrue => Base
  BY DEF Base
<1>7. Spec => []LiveIsTrue
  BY LiveTrue
<1> QED
  BY <1>1, <1>2, <1>3, <1>4, <1>5, <1>6, <1>7, TypeCorrect, GateCorrect, SlotsCorrect,
     PTL DEF Spec, CycleIsSafe, NoEntryWhileClosed, CycleStartsOffline
=============================================================================
