------------------------------ MODULE MCParts -------------------------------
(***************************************************************************)
(* The parts that keep their state to themselves, checked side by side: a  *)
(* behaviour picks one of them at the start and takes its steps only.      *)
(***************************************************************************)
EXTENDS Naturals, FiniteSets, Sequences

CONSTANTS
  Callers, FailureThreshold, SuccessThreshold, MaxConcurrentRequests,
  ENIs, Addresses, None,
  RawIDs, GraphENIs, MaxAdds,
  Devices,
  MaxFailures,
  Subnets, Base, MaxIndex, MaxMoves, Other

VARIABLES
  component,   \* the part this behaviour is about
  state, failureCount, successCount, requestCount, timedOut, pc, healthy, probes,
  mappings, index, file, torn, saving, saved,
  dependencies, resourceStates, creating, handed, completed, adds,
  search, path, visited, order,
  dpdkState, dpdkFailures, dpdkSuccesses, dpdkTimedOut, locksMutex, lock, abandoned,
  dpdkPc, device, working,
  driver, override, claims, scripts, phase, failures, lost,
  subnetIDs, elsewhere, full, slots, attaching, recorded, round, moves

Breaker == INSTANCE CircuitBreaker
Mapping == INSTANCE MappingStore
Graph == INSTANCE DependencyGraph WITH ENIs <- GraphENIs
DPDK == INSTANCE DPDKManager WITH
  NoDevice <- None, state <- dpdkState, failures <- dpdkFailures,
  successes <- dpdkSuccesses, timedOut <- dpdkTimedOut, pc <- dpdkPc
Unbind == INSTANCE DPDKUnbind
Indices == INSTANCE DeviceIndices WITH Free <- None

breakerVars ==
  <<state, failureCount, successCount, requestCount, timedOut, pc, healthy, probes>>
mappingVars == <<mappings, index, file, torn, saving, saved>>
graphVars == <<dependencies, resourceStates, creating, handed, completed, adds,
               search, path, visited, order>>
dpdkVars == <<dpdkState, dpdkFailures, dpdkSuccesses, dpdkTimedOut, locksMutex, lock, abandoned,
              dpdkPc, device, working>>
unbindVars == <<driver, override, claims, scripts, phase, failures, lost>>
indexVars == <<subnetIDs, elsewhere, full, slots, attaching, recorded, round, moves>>

vars == <<component, breakerVars, mappingVars, graphVars, dpdkVars, unbindVars, indexVars>>

\* A part that has no steps in this behaviour stays in one of its initial states.  The
\* subnets are alike, so it does not matter which of them is listed first.
Init ==
  /\ component \in {"breaker", "mapping", "graph", "manager", "dpdk", "unbind", "indices"}
  /\ Breaker!Init /\ Mapping!Init /\ Graph!Init /\ DPDK!Init
  /\ Unbind!Init
  /\ component # "unbind" => claims
  /\ Indices!Init
  /\ subnetIDs[1] = CHOOSE s \in Subnets : TRUE
  /\ component # "indices" =>
       /\ Len(subnetIDs) = 1
       /\ full = {} /\ slots[2] = None /\ elsewhere = [s \in Subnets |-> 0]

Next ==
  /\ UNCHANGED component
  /\ \/ /\ component = "breaker" /\ Breaker!Next
        /\ UNCHANGED <<mappingVars, graphVars, dpdkVars, unbindVars, indexVars>>
     \/ /\ component = "mapping" /\ Mapping!Next
        /\ UNCHANGED <<breakerVars, graphVars, dpdkVars, unbindVars, indexVars>>
     \/ /\ component = "graph" /\ Graph!GraphNext
        /\ UNCHANGED <<breakerVars, mappingVars, dpdkVars, unbindVars, indexVars>>
     \/ /\ component = "manager" /\ Graph!ManagerNext
        /\ UNCHANGED <<breakerVars, mappingVars, dpdkVars, unbindVars, indexVars>>
     \/ /\ component = "dpdk" /\ DPDK!Next
        /\ UNCHANGED <<breakerVars, mappingVars, graphVars, unbindVars, indexVars>>
     \/ /\ component = "unbind" /\ Unbind!Next
        /\ UNCHANGED <<breakerVars, mappingVars, graphVars, dpdkVars, indexVars>>
     \/ /\ component = "indices" /\ Indices!Next
        /\ UNCHANGED <<breakerVars, mappingVars, graphVars, dpdkVars, unbindVars>>

Spec == Init /\ [][Next]_vars

\* The properties of the parts.
TypeOK ==
  /\ Breaker!TypeOK /\ Mapping!TypeOK /\ Graph!TypeOK
  /\ DPDK!TypeOK /\ Unbind!TypeOK /\ Indices!TypeOK

AtMostOneMoreProbe == Breaker!AtMostOneMoreProbe

EveryMappingIsFound == Mapping!EveryMappingIsFound

SavedMeansDurable == Mapping!SavedMeansDurable

AlwaysOrdered == Graph!AlwaysOrdered

OnlyAfterPrerequisites == Graph!OnlyAfterPrerequisites

\* Only the manager has callers that complete what is ready.
Drains == component = "manager" /\ Graph!Fairness => Graph!Drains

OneScriptPerDevice == DPDK!OneScriptPerDevice

EveryBindReturns == component = "dpdk" /\ DPDK!Fairness => DPDK!EveryBindReturns

BreakerRecovers == component = "dpdk" /\ DPDK!Fairness => DPDK!BreakerRecovers

UnbindIsAtomic == Unbind!UnbindIsAtomic

RecordedWhereAttached == Indices!RecordedWhereAttached

NoMoreThanListed == Indices!NoMoreThanListed

EverySubnetServed == component = "indices" /\ Indices!Fairness => Indices!EverySubnetServed

=============================================================================
