---------------------------- MODULE Parts_proofs ----------------------------
(***************************************************************************)
(* The parts that MCParts checks side by side, for any values of their     *)
(* constants: each behaves as on its own, and the circuit breakers, the    *)
(* mapping store and the locks of DPDK devices keep their promises.        *)
(***************************************************************************)
EXTENDS MCParts, TLAPS

\* Side by side, each part takes its own steps or none.
LEMMA PartsBehave ==
  Spec => /\ Breaker!Spec /\ Mapping!Spec /\ Graph!Spec
          /\ DPDK!Spec /\ Unbind!Spec /\ Indices!Spec
<1>1. Init => /\ Breaker!Init /\ Mapping!Init /\ Graph!Init
              /\ DPDK!Init /\ Unbind!Init /\ Indices!Init
  BY DEF Init
<1>2. [Next]_vars => [Breaker!Next]_(Breaker!vars)
  BY DEF Next, vars, breakerVars, Breaker!vars
<1>3. [Next]_vars => [Mapping!Next]_(Mapping!vars)
  BY DEF Next, vars, mappingVars, Mapping!vars
<1>4. [Next]_vars => [Graph!Next]_(Graph!vars)
  BY DEF Next, vars, graphVars, Graph!vars, Graph!searchVars, Graph!Next
<1>5. [Next]_vars => [DPDK!Next]_(DPDK!vars)
  BY DEF Next, vars, dpdkVars, DPDK!vars
<1>6. [Next]_vars => [Unbind!Next]_(Unbind!vars)
  BY DEF Next, vars, unbindVars, Unbind!vars
<1>7. [Next]_vars => [Indices!Next]_(Indices!vars)
  BY DEF Next, vars, indexVars, Indices!vars
<1> QED
  BY <1>1, <1>2, <1>3, <1>4, <1>5, <1>6, <1>7, PTL
  DEF Spec, Breaker!Spec, Mapping!Spec, Graph!Spec, DPDK!Spec, Unbind!Spec, Indices!Spec

-----------------------------------------------------------------------------
(* The AWS circuit breaker *)

\* The call that opens the period is not counted, every other one is.
CountedProbes ==
  /\ requestCount \in Nat /\ probes \in Nat
  /\ state = "half-open" =>
       probes = requestCount + 1 /\ requestCount <= MaxConcurrentRequests

LEMMA NextCountedProbes ==
  ASSUME MaxConcurrentRequests \in Nat, CountedProbes, [Breaker!Next]_(Breaker!vars)
  PROVE  CountedProbes'
<1> USE DEF CountedProbes, Breaker!counters
<1>1. ASSUME NEW c \in Callers, Breaker!Step(c)
      PROVE  CountedProbes'
  <2>1. CASE Breaker!IsOperationAllowed(c)  BY <2>1 DEF Breaker!IsOperationAllowed
  <2>2. CASE Breaker!AllowRequest(c)  BY <2>2 DEF Breaker!AllowRequest, Breaker!Allowed
  <2>3. CASE Breaker!OnSuccess(c)  BY <2>3 DEF Breaker!OnSuccess
  <2>4. CASE Breaker!OnFailure(c)  BY <2>4 DEF Breaker!OnFailure
  <2> QED  BY <1>1, <2>1, <2>2, <2>3, <2>4 DEF Breaker!Step
<1>2. CASE Breaker!TimeoutPasses  BY <1>2 DEF Breaker!TimeoutPasses
<1>3. CASE Breaker!ServiceChanges  BY <1>3 DEF Breaker!ServiceChanges
<1>4. CASE Breaker!Reset  BY <1>4 DEF Breaker!Reset
<1>5. CASE UNCHANGED Breaker!vars  BY <1>5 DEF Breaker!vars
<1> QED  BY <1>1, <1>2, <1>3, <1>4, <1>5 DEF Breaker!Next

\* One half-open period admits at most one request more than it is meant to: only
\* allowRequest moves the count and the state, and a late result ends the period or changes
\* neither.
THEOREM AtMostOneMore ==
  ASSUME MaxConcurrentRequests \in Nat PROVE Spec => []AtMostOneMoreProbe
<1>1. Breaker!Init => CountedProbes
  BY DEF Breaker!Init, CountedProbes
<1>2. CountedProbes /\ [Breaker!Next]_(Breaker!vars) => CountedProbes'
  BY NextCountedProbes
<1>3. CountedProbes => AtMostOneMoreProbe
  BY DEF CountedProbes, AtMostOneMoreProbe, Breaker!AtMostOneMoreProbe
<1> QED  BY <1>1, <1>2, <1>3, PartsBehave, PTL DEF Breaker!Spec

\* A breaker can be opened and closed.
BreakerLimits ==
  /\ FailureThreshold \in Nat /\ SuccessThreshold \in Nat \ {0}
  /\ MaxConcurrentRequests \in Nat

\* The counters stay below their limits: a late success or failure does not count beyond
\* the change of state it would have caused.
LEMMA BreakerTypes == ASSUME BreakerLimits PROVE Breaker!Spec => []Breaker!TypeOK
<1> USE DEF BreakerLimits, Breaker!TypeOK
<1>1. Breaker!Init => Breaker!TypeOK
  <2>1. 0 \in 0..FailureThreshold /\ 0 \in 0..(SuccessThreshold - 1)
        /\ 0 \in 0..MaxConcurrentRequests
    OBVIOUS
  <2>2. Breaker!Init => timedOut \in BOOLEAN /\ healthy \in BOOLEAN
    BY DEF Breaker!Init
  <2> QED  BY <2>1, <2>2 DEF Breaker!Init
<1>2. Breaker!TypeOK /\ [Breaker!Next]_(Breaker!vars) => Breaker!TypeOK'
  <2> SUFFICES ASSUME Breaker!TypeOK, [Breaker!Next]_(Breaker!vars)
               PROVE  Breaker!TypeOK'
    OBVIOUS
  <2> USE DEF Breaker!Goto, Breaker!counters
  <2>1. ASSUME NEW c \in Callers, Breaker!Step(c)
        PROVE  Breaker!TypeOK'
    <3>1. CASE Breaker!IsOperationAllowed(c)  BY <3>1 DEF Breaker!IsOperationAllowed
    <3>2. CASE Breaker!AllowRequest(c)  BY <3>2 DEF Breaker!AllowRequest, Breaker!Allowed
    <3>3. CASE Breaker!OnSuccess(c)  BY <3>3 DEF Breaker!OnSuccess
    <3>4. CASE Breaker!OnFailure(c)
      <4>1. failureCount' \in 0..FailureThreshold
        BY <3>4 DEF Breaker!OnFailure
      <4>2. /\ state' \in {"closed", "open", "half-open"}
            /\ successCount' \in 0..(SuccessThreshold - 1)
            /\ requestCount' \in 0..MaxConcurrentRequests /\ probes' \in Nat
        BY <3>4 DEF Breaker!OnFailure
      <4> QED  BY <3>4, <4>1, <4>2 DEF Breaker!OnFailure
    <3> QED  BY <2>1, <3>1, <3>2, <3>3, <3>4 DEF Breaker!Step
  <2>2. CASE Breaker!TimeoutPasses  BY <2>2 DEF Breaker!TimeoutPasses
  <2>3. CASE Breaker!ServiceChanges  BY <2>3 DEF Breaker!ServiceChanges
  <2>4. CASE Breaker!Reset  BY <2>4 DEF Breaker!Reset
  <2>5. CASE UNCHANGED Breaker!vars  BY <2>5 DEF Breaker!vars
  <2> QED  BY <2>1, <2>2, <2>3, <2>4, <2>5 DEF Breaker!Next
<1> QED  BY <1>1, <1>2, PTL DEF Breaker!Spec

-----------------------------------------------------------------------------
(* The mapping store *)

LEMMA MappingTypes == Mapping!Spec => []Mapping!TypeOK
<1> USE DEF Mapping!TypeOK, Mapping!Mappings, Mapping!Empty, Mapping!Has
<1>1. Mapping!Init => Mapping!TypeOK
  BY DEF Mapping!Init, Mapping!NoIndex
<1>2. Mapping!TypeOK /\ [Mapping!Next]_(Mapping!vars) => Mapping!TypeOK'
  <2> SUFFICES ASSUME Mapping!TypeOK, [Mapping!Next]_(Mapping!vars)
               PROVE  Mapping!TypeOK'
    OBVIOUS
  <2>1. ASSUME NEW e \in ENIs, NEW a \in Addresses \cup {None},
               Mapping!AddMapping(e, a) \/ Mapping!UpdateMapping(e, a)
        PROVE  Mapping!TypeOK'
    BY <2>1 DEF Mapping!AddMapping, Mapping!UpdateMapping, Mapping!Filed, Mapping!BeginSave
  <2>2. ASSUME NEW e \in ENIs, Mapping!RemoveMapping(e) PROVE Mapping!TypeOK'
    BY <2>2 DEF Mapping!RemoveMapping, Mapping!BeginSave
  <2>3. CASE Mapping!EndSave  BY <2>3 DEF Mapping!EndSave
  <2>4. CASE Mapping!Restart  BY <2>4 DEF Mapping!Restart
  <2>5. CASE UNCHANGED Mapping!vars  BY <2>5 DEF Mapping!vars
  <2> QED  BY <2>1, <2>2, <2>3, <2>4, <2>5 DEF Mapping!Next
<1> QED  BY <1>1, <1>2, PTL DEF Mapping!Spec

\* The entry under a mapping's address names its ENI.
LEMMA IndexedNext ==
  ASSUME None \notin ENIs, Mapping!TypeOK, Mapping!Distinct, Mapping!Distinct', Mapping!Indexed,
         [Mapping!Next]_(Mapping!vars)
  PROVE  Mapping!Indexed'
<1> USE DEF Mapping!TypeOK, Mapping!Mappings, Mapping!Distinct, Mapping!Indexed, Mapping!Lookup,
            Mapping!Has
<1>1. ASSUME NEW e \in ENIs, NEW a \in Addresses \cup {None},
             Mapping!AddMapping(e, a) \/ Mapping!UpdateMapping(e, a)
      PROVE  Mapping!Indexed'
  <2> SUFFICES ASSUME NEW f \in ENIs, Mapping!Has(f)', mappings'[f] # None
               PROVE  index'[mappings'[f]] = f
    OBVIOUS
  <2>1. /\ mappings' = [mappings EXCEPT ![e] = a]
        /\ index' = Mapping!Filed(index, e, a)
    BY <1>1 DEF Mapping!AddMapping, Mapping!UpdateMapping
  <2>2. CASE f = e  BY <2>1, <2>2 DEF Mapping!Filed
  <2>3. CASE f # e
    <3>1. mappings'[f] = mappings[f] /\ mappings'[e] = a
      BY <2>1, <2>3
    <3>2. mappings[f] # a
      BY <2>3, <3>1
    <3>3. index[mappings[f]] = f
      BY <3>1
    <3> QED  BY <2>1, <3>1, <3>2, <3>3 DEF Mapping!Filed
  <2> QED  BY <2>2, <2>3
<1>2. ASSUME NEW e \in ENIs, Mapping!RemoveMapping(e) PROVE Mapping!Indexed'
  BY <1>2 DEF Mapping!RemoveMapping
<1>3. CASE Mapping!EndSave
  BY <1>3 DEF Mapping!EndSave
<1>4. CASE Mapping!Restart
  <2> SUFFICES ASSUME NEW f \in ENIs, Mapping!Has(f)', mappings'[f] # None
               PROVE  index'[mappings'[f]] = f
    OBVIOUS
  <2>1. file[f] \in Addresses /\ mappings' = file
    BY <1>4 DEF Mapping!Restart
  <2>2. {e \in ENIs : file[e] = file[f]} = {f}
    BY <2>1
  <2> QED  BY <1>4, <2>1, <2>2 DEF Mapping!Restart
<1>5. CASE UNCHANGED Mapping!vars
  BY <1>5 DEF Mapping!vars
<1> QED  BY <1>1, <1>2, <1>3, <1>4, <1>5 DEF Mapping!Next

\* While no two mappings have one address, neither the stale entries that updates leave
\* behind, nor removals, nor a restart keep a mapping from being found by its address.
THEOREM Found == ASSUME None \notin ENIs PROVE Spec => EveryMappingIsFound
<1>1. Mapping!Init => Mapping!Indexed
  BY DEF Mapping!Init, Mapping!Indexed, Mapping!Has, Mapping!Empty
<1>2. /\ Mapping!TypeOK /\ Mapping!Distinct /\ Mapping!Distinct' /\ Mapping!Indexed
      /\ [Mapping!Next]_(Mapping!vars)
      => Mapping!Indexed'
  BY IndexedNext
<1>3. Mapping!Spec => Mapping!EveryMappingIsFound
  BY <1>1, <1>2, MappingTypes, PTL DEF Mapping!Spec, Mapping!EveryMappingIsFound
<1>4. EveryMappingIsFound <=> Mapping!EveryMappingIsFound
  BY DEF EveryMappingIsFound
<1> QED  BY <1>3, <1>4, PartsBehave, PTL

\* What an operation has saved is what a restart finds, wherever writes fail or stop.
THEOREM Durable == Spec => []SavedMeansDurable
<1>1. Mapping!Init => Mapping!SavedMeansDurable
  BY DEF Mapping!Init, Mapping!SavedMeansDurable, Mapping!Empty
<1>2. Mapping!SavedMeansDurable /\ [Mapping!Next]_(Mapping!vars) => Mapping!SavedMeansDurable'
  <2> SUFFICES ASSUME Mapping!SavedMeansDurable, [Mapping!Next]_(Mapping!vars)
               PROVE  Mapping!SavedMeansDurable'
    OBVIOUS
  <2> USE DEF Mapping!SavedMeansDurable, Mapping!BeginSave
  <2>1. ASSUME NEW e \in ENIs, NEW a \in Addresses \cup {None},
               Mapping!AddMapping(e, a) \/ Mapping!UpdateMapping(e, a)
        PROVE  Mapping!SavedMeansDurable'
    BY <2>1 DEF Mapping!AddMapping, Mapping!UpdateMapping
  <2>2. ASSUME NEW e \in ENIs, Mapping!RemoveMapping(e) PROVE Mapping!SavedMeansDurable'
    BY <2>2 DEF Mapping!RemoveMapping
  <2>3. CASE Mapping!EndSave  BY <2>3 DEF Mapping!EndSave
  <2>4. CASE Mapping!Restart  BY <2>4 DEF Mapping!Restart
  <2>5. CASE UNCHANGED Mapping!vars  BY <2>5 DEF Mapping!vars
  <2> QED  BY <2>1, <2>2, <2>3, <2>4, <2>5 DEF Mapping!Next
<1>3. SavedMeansDurable <=> Mapping!SavedMeansDurable
  BY DEF SavedMeansDurable
<1> QED  BY <1>1, <1>2, <1>3, PartsBehave, PTL DEF Mapping!Spec

-----------------------------------------------------------------------------
(* The DPDK manager *)

Thresholds == FailureThreshold \in Nat /\ SuccessThreshold \in Nat

\* A device is at hand from the first step of a call, and whoever runs the script holds the
\* device's lock.
HasDevice == \A c \in Callers : dpdkPc[c] # "idle" => device[c] \in Devices

HoldsLock == \A c \in Callers : dpdkPc[c] = "script" => lock[device[c]] = "taken"

ScriptInv == DPDK!TypeOK /\ HasDevice /\ HoldsLock /\ DPDK!OneScriptPerDevice

LEMMA InitScriptInv == ASSUME Thresholds PROVE DPDK!Init => ScriptInv
<1> SUFFICES ASSUME DPDK!Init PROVE ScriptInv
  OBVIOUS
<1>1. DPDK!TypeOK
  <2>1. dpdkFailures \in 0..FailureThreshold /\ dpdkSuccesses \in 0..SuccessThreshold
    BY DEF Thresholds, DPDK!Init
  <2>2. dpdkTimedOut \in BOOLEAN /\ working \in BOOLEAN
    BY DEF DPDK!Init
  <2>3. abandoned \in [Devices -> BOOLEAN]
    BY DEF DPDK!Init
  <2> QED  BY <2>1, <2>2, <2>3 DEF DPDK!Init, DPDK!TypeOK
<1>2. HasDevice /\ HoldsLock /\ DPDK!OneScriptPerDevice
  BY DEF DPDK!Init, HasDevice, HoldsLock, DPDK!OneScriptPerDevice
<1> QED  BY <1>1, <1>2 DEF ScriptInv

\* The circuit breaker's steps touch no lock, and let no caller into the script.
LEMMA BreakerSteps ==
  ASSUME Thresholds, ScriptInv, NEW c \in Callers,
         \/ DPDK!Bind(c) \/ DPDK!Upgrade(c) \/ DPDK!RecordSuccess(c) \/ DPDK!RecordFailure(c)
         \/ DPDK!TimeoutPasses \/ DPDK!Reset \/ DPDK!ScriptChanges
  PROVE  ScriptInv'
<1> USE DEF Thresholds, ScriptInv, DPDK!TypeOK, HasDevice, HoldsLock, DPDK!OneScriptPerDevice,
            DPDK!Goto, DPDK!Return, DPDK!Count, DPDK!locks, DPDK!breaker
<1>1. CASE DPDK!Bind(c)  BY <1>1 DEF DPDK!Bind, DPDK!canExecute
<1>2. CASE DPDK!Upgrade(c)  BY <1>2 DEF DPDK!Upgrade
<1>3. CASE DPDK!RecordSuccess(c)
  <2>1. dpdkSuccesses' \in 0..SuccessThreshold /\ dpdkFailures' \in 0..FailureThreshold
    BY <1>3 DEF DPDK!RecordSuccess
  <2>2. dpdkState' \in {"closed", "open", "half-open"}
    BY <1>3 DEF DPDK!RecordSuccess
  <2> QED  BY <1>3, <2>1, <2>2 DEF DPDK!RecordSuccess
<1>4. CASE DPDK!RecordFailure(c)
  <2>1. dpdkSuccesses' \in 0..SuccessThreshold /\ dpdkFailures' \in 0..FailureThreshold
    BY <1>4 DEF DPDK!RecordFailure
  <2>2. dpdkState' \in {"closed", "open", "half-open"}
    BY <1>4 DEF DPDK!RecordFailure
  <2> QED  BY <1>4, <2>1, <2>2 DEF DPDK!RecordFailure
<1>5. CASE DPDK!TimeoutPasses  BY <1>5 DEF DPDK!TimeoutPasses
<1>6. CASE DPDK!Reset  BY <1>6 DEF DPDK!Reset
<1>7. CASE DPDK!ScriptChanges  BY <1>7 DEF DPDK!ScriptChanges
<1> QED  BY <1>1, <1>2, <1>3, <1>4, <1>5, <1>6, <1>7

\* The locks' steps.  A caller gets a lock that is free, so nobody runs the script for its
\* device; the lock a caller gives back is its own alone.
LEMMA LockSteps ==
  ASSUME ScriptInv, NEW c \in Callers, NEW d \in Devices,
         \/ DPDK!TakeLocksMutex(c) \/ DPDK!AcquireLock(c) \/ DPDK!GiveUp(c)
         \/ DPDK!LoseLock(d) \/ DPDK!RunScript(c)
  PROVE  ScriptInv'
<1> USE DEF ScriptInv, DPDK!TypeOK, HasDevice, HoldsLock, DPDK!OneScriptPerDevice, DPDK!Goto,
            DPDK!breaker
<1>1. CASE DPDK!TakeLocksMutex(c)  BY <1>1 DEF DPDK!TakeLocksMutex
<1>2. CASE DPDK!AcquireLock(c)  BY <1>2 DEF DPDK!AcquireLock
<1>3. CASE DPDK!GiveUp(c)  BY <1>3 DEF DPDK!GiveUp
<1>4. CASE DPDK!LoseLock(d)  BY <1>4 DEF DPDK!LoseLock
<1>5. CASE DPDK!RunScript(c)  BY <1>5 DEF DPDK!RunScript
<1> QED  BY <1>1, <1>2, <1>3, <1>4, <1>5

LEMMA NextScriptInv == ASSUME Thresholds, ScriptInv, [DPDK!Next]_(DPDK!vars) PROVE ScriptInv'
<1>1. CASE \E c \in Callers : DPDK!Bind(c) \/ DPDK!Step(c)
  <2>1. PICK c \in Callers : DPDK!Bind(c) \/ DPDK!Step(c)  BY <1>1
  <2>2. dpdkPc[c] # "idle" => device[c] \in Devices  BY DEF ScriptInv, HasDevice
  <2>3. CASE DPDK!Bind(c) \/ DPDK!Upgrade(c) \/ DPDK!RecordSuccess(c) \/ DPDK!RecordFailure(c)
    BY <2>3, BreakerSteps
  <2>4. CASE \/ DPDK!TakeLocksMutex(c) \/ DPDK!AcquireLock(c)
             \/ DPDK!GiveUp(c) \/ DPDK!RunScript(c)
    <3>1. device[c] \in Devices
      BY <2>2, <2>4 DEF DPDK!TakeLocksMutex, DPDK!AcquireLock, DPDK!GiveUp, DPDK!RunScript
    <3> QED  BY <3>1, <2>4, LockSteps
  <2> QED  BY <2>1, <2>3, <2>4 DEF DPDK!Step
<1>2. CASE \E d \in Devices : DPDK!LoseLock(d)
  BY <1>2 DEF DPDK!LoseLock, ScriptInv, DPDK!TypeOK, HasDevice, HoldsLock,
              DPDK!OneScriptPerDevice, DPDK!breaker
<1>3. CASE DPDK!TimeoutPasses
  BY <1>3 DEF DPDK!TimeoutPasses, ScriptInv, DPDK!TypeOK, HasDevice, HoldsLock,
              DPDK!OneScriptPerDevice, DPDK!locks
<1>4. CASE DPDK!Reset
  BY <1>4 DEF DPDK!Reset, ScriptInv, DPDK!TypeOK, HasDevice, HoldsLock,
              DPDK!OneScriptPerDevice, DPDK!locks, Thresholds
<1>5. CASE DPDK!ScriptChanges
  BY <1>5 DEF DPDK!ScriptChanges, ScriptInv, DPDK!TypeOK, HasDevice, HoldsLock,
              DPDK!OneScriptPerDevice, DPDK!breaker,
              DPDK!locks
<1>6. CASE UNCHANGED DPDK!vars
  BY <1>6 DEF DPDK!vars, ScriptInv, DPDK!TypeOK, HasDevice, HoldsLock, DPDK!OneScriptPerDevice
<1> QED  BY <1>1, <1>2, <1>3, <1>4, <1>5, <1>6 DEF DPDK!Next

LEMMA ScriptInvariance == ASSUME Thresholds PROVE DPDK!Spec => []ScriptInv
<1>1. DPDK!Init => ScriptInv  BY InitScriptInv
<1>2. ScriptInv /\ [DPDK!Next]_(DPDK!vars) => ScriptInv'  BY NextScriptInv
<1> QED  BY <1>1, <1>2, PTL DEF DPDK!Spec

\* Two calls never run the script for one device at the same time: a wait that was given up
\* takes a free lock only, and never one that a call holds.
THEOREM OneScript == ASSUME Thresholds PROVE Spec => []OneScriptPerDevice
<1>1. ScriptInv => OneScriptPerDevice
  BY DEF ScriptInv, OneScriptPerDevice
<1> QED  BY <1>1, ScriptInvariance, PartsBehave, PTL

=============================================================================
