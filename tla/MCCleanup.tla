------------------------------ MODULE MCCleanup ------------------------------
(***************************************************************************)
(* No ENI is forgotten: by the pools that clean up after a deleted         *)
(* NodeENI, and by the reconciler when it meets the failures it makes up   *)
(* for.  A behaviour picks one of the two modules at the start and takes   *)
(* its steps only.                                                         *)
(***************************************************************************)
EXTENDS MCCleanupPool

CONSTANTS s1, s2, NoNode

VARIABLES
  component,   \* the module this behaviour is about
  server, cache, synced, elapsed, aws, running, selected, pc, call

reconcilerVars == <<server, cache, synced, elapsed, aws, running, selected, pc, call>>

\* Two subnets of one node, two ENI IDs for each.
Reconciler == INSTANCE NodeENIController WITH
  Nodes <- {node}, Subnets <- {s1, s2}, ENIs <- MCENIs, NodeOf <- MCNodeOf,
  SubnetOf <- [e \in MCENIs |-> IF e \in {a, b} THEN s1 ELSE s2],
  RetrySteps <- 2, Facade <- FALSE,
  Faults <- {"create", "attach", "detach", "lock", "subnet"},
  Outside <- {"relabel", "detach", "delete"}

\* A module that has no steps in this behaviour stays in one of its initial states.
MCInit ==
  /\ component \in {"reconciler", "pool"}
  /\ Init /\ Reconciler!Init
  /\ component = "reconciler" => nodeLevel = {} /\ env.healthy /\ cleaned = {}

MCNext ==
  /\ UNCHANGED component
  /\ \/ component = "reconciler" /\ Reconciler!Next /\ UNCHANGED vars
     \/ component = "pool" /\ Next /\ UNCHANGED reconcilerVars

MCSpec == MCInit /\ [][MCNext]_<<component, vars, reconcilerVars>>

\* The properties of the two modules, each on its own behaviours.
NoLeak == Reconciler!NoLeak

PoolReturns == component = "pool" /\ Fairness => EveryPoolReturns

GranularCompletes == component = "pool" /\ Fairness => GranularDeletionCompletes

=============================================================================
