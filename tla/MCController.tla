---------------------------- MODULE MCController ----------------------------
(***************************************************************************)
(* The CoordinationManager on its small instance and the reconciler on one *)
(* of its own, side by side: a behaviour picks one of them at the start    *)
(* and takes its steps only.  The reconciler has two subnets of two nodes  *)
(* and one ENI ID for each; nodes come and go, and nothing fails.          *)
(***************************************************************************)
EXTENDS MCCoordination

CONSTANTS n1, n2, s1, s2, a1, a2, b1, b2, NoENI, NoNode

VARIABLES
  component,  \* the part this behaviour is about
  server, cache, synced, elapsed, aws, running, selected, reconcile, call

reconcilerVars == <<server, cache, synced, elapsed, aws, running, selected, reconcile, call>>

MCENIs == {a1, a2, b1, b2}

Convergence == INSTANCE NodeENIController WITH
  Nodes <- {n1, n2}, Subnets <- {s1, s2}, ENIs <- MCENIs,
  NodeOf <- [e \in MCENIs |-> IF e \in {a1, b1} THEN n1 ELSE n2],
  SubnetOf <- [e \in MCENIs |-> IF e \in {a1, a2} THEN s1 ELSE s2],
  RetrySteps <- 2, MaxConcurrentENICleanup <- 3, Facade <- FALSE,
  Faults <- {}, Outside <- {"relabel"},
  pc <- reconcile

MCInit ==
  /\ component \in {"coordination", "reconciler"}
  /\ Init /\ Convergence!Init

MCNext ==
  /\ UNCHANGED component
  /\ \/ component = "coordination" /\ Next /\ UNCHANGED reconcilerVars
     \/ component = "reconciler" /\ Convergence!Next /\ UNCHANGED vars

MCSpec == MCInit /\ [][MCNext]_<<component, vars, reconcilerVars>>

\* The properties of the reconciler.
UnselectedNodesLoseENIs ==
  component = "reconciler" /\ Convergence!Fairness => Convergence!UnselectedNodesLoseENIs

SelectedNodesGetENIs ==
  component = "reconciler" /\ Convergence!Fairness => Convergence!SelectedNodesGetENIs

=============================================================================
